---- MODULE Spec2Model ----
(***************************************************************************)
(* WXR export of wordpress-site-generator.                                 *)
(*                                                                         *)
(* Two builders are modelled, each as the single pass its code makes:      *)
(*   builder = "content" : routes/export.py  _generate_wxr_content         *)
(*   builder = "file"    : wxr_generator.py  generate_wxr_file             *)
(*                                                                         *)
(* Three specifications share the variables:                               *)
(*   Spec       one build, by either builder, over all input rows          *)
(*   SpecRoute  the generate route: requests, builds, the session          *)
(*   SpecParse  parse_bibtex applied to a BibTeX text                      *)
(*                                                                         *)
(* Text is a sequence of tokens.  A token taken from user input is a       *)
(* one-character string; a multi-character token is a literal of the       *)
(* source (markup written by the builder).  Concatenating the tokens of a  *)
(* text gives the Python string.                                           *)
(***************************************************************************)
EXTENDS Integers, Sequences, FiniteSets, TLC

VARIABLES
    builder,                  \* which of the two builders runs
    user, site,               \* User, WordPressSite records
    step1_data, step2_data,   \* Step1PersonalInfo, Step2Biography
    step3_data, step4_data,   \* Step3Publications, Step4Gallery (or NoRow)
    disk,                     \* filenames present in the site's upload folder
    pc,                       \* position of the build in its pass
    idx,                      \* index of the gallery loop
    post_id_counter,
    gallery_post_ids,
    profile_picture_post_id,
    xml_lines,                \* export.py: the list of output lines
    channel,                  \* wxr_generator.py: children of <channel>
    now,                      \* the clock datetime.utcnow() / now() reads
    session,                  \* flask session: wxr_data, wxr_filename
    flashes,                  \* messages flashed by the current request
    bibtex_content,           \* SpecParse: the argument of parse_bibtex
    parse_result,             \* SpecParse: what parse_bibtex returned or raised
    format_arg,               \* SpecFormat: the argument of format_publication_html
    format_result,            \* SpecFormat: what format_publication_html returned
    delivered,                \* what the latest download request sent as a file
    writes                    \* SpecWizard: requests that wrote to the database so far

vars == << builder, user, site, step1_data, step2_data, step3_data, step4_data,
           disk, pc, idx, post_id_counter, gallery_post_ids,
           profile_picture_post_id, xml_lines, channel,
           now, session, flashes, bibtex_content, parse_result,
           format_arg, format_result, delivered, writes >>

inputs == << builder, user, site, step1_data, step2_data, step3_data,
             step4_data, disk, now, writes >>

\* the state of the generate route around a build
route == << session, flashes >>

\* the state of a call of parse_bibtex on its own
parsing == << bibtex_content, parse_result >>

\* the state of a call of format_publication_html on its own
formatting == << format_arg, format_result >>

-----------------------------------------------------------------------------
(* Bounds of the model *)

MaxGallery == 2
MaxBib == 2
MaxManual == 2
MaxEntries == 2
MaxTicks == 1
MaxWrites == 2

-----------------------------------------------------------------------------
(* Python values *)

\* None of a nullable text column; no user text holds a multi-character token
None == << "None" >>

\* Truthy, were the empty string taken for a value
Truthy_NotNone(text) == text # None

\* truth value of a str-or-None
Truthy(text) == text # None /\ text # << >>

\* str(x) of a str-or-None, as an f-string renders it
StrOf(text) == IF text = None THEN << "N", "o", "n", "e" >> ELSE text

\* a or b, were the fallback never taken
Or_LeftOnly(a, b) == a

\* a or b
Or(a, b) == IF Truthy(a) THEN a ELSE b

Digit == << "0", "1", "2", "3", "4", "5", "6", "7", "8", "9" >>

RECURSIVE Str(_)
\* str(n) of a non-negative int
Str(n) == IF n < 10 THEN << Digit[n + 1] >>
          ELSE Str(n \div 10) \o << Digit[(n % 10) + 1] >>

IsDigit(t) == \E d \in 1..10 : Digit[d] = t

DigitValue(t) == (CHOOSE d \in 1..10 : Digit[d] = t) - 1

RECURSIVE ParseInt(_)
\* int(s) of a non-empty digit string
ParseInt(s) == IF Len(s) = 1 THEN DigitValue(s[1])
               ELSE 10 * ParseInt(SubSeq(s, 1, Len(s) - 1)) + DigitValue(s[Len(s)])

RECURSIVE Replace(_, _, _)
\* text.replace(c, r) for a one-character c
Replace(text, c, r) ==
    IF text = << >> THEN << >>
    ELSE (IF Head(text) = c THEN r ELSE << Head(text) >>)
         \o Replace(Tail(text), c, r)

RECURSIVE JoinRange(_, _, _, _)
\* parts[lo] sep ... sep parts[hi], put together by halves
JoinRange(parts, lo, hi, sep) ==
    IF lo = hi THEN parts[lo]
    ELSE JoinRange(parts, lo, (lo + hi) \div 2, sep) \o sep
         \o JoinRange(parts, (lo + hi) \div 2 + 1, hi, sep)

\* sep.join(parts)
Join(parts, sep) ==
    IF parts = << >> THEN << >> ELSE JoinRange(parts, 1, Len(parts), sep)

\* Concat, were the parts joined with a space
Concat_Spaced(parts) == Join(parts, << " " >>)

RECURSIVE Concat(_)
\* ''.join(parts)
Concat(parts) == IF parts = << >> THEN << >> ELSE Head(parts) \o Concat(Tail(parts))

RECURSIVE LStrip(_)
LStrip(text) == IF text # << >> /\ Head(text) \in { " ", "\n", "\t" }
                THEN LStrip(Tail(text)) ELSE text

RECURSIVE RStrip(_)
RStrip(text) == IF text # << >> /\ text[Len(text)] \in { " ", "\n", "\t" }
                THEN RStrip(SubSeq(text, 1, Len(text) - 1)) ELSE text

\* text.strip()
Strip(text) == RStrip(LStrip(text))

\* dict.get(k) with None for a missing key
Get(d, k) == IF k \in DOMAIN d THEN d[k] ELSE None

\* dict.get(k, '')
GetOr(d, k) == IF k \in DOMAIN d THEN d[k] ELSE << >>

Range(s) == { s[i] : i \in DOMAIN s }

\* the members of a set of positions, in increasing order
InOrder(S) ==
    [ k \in 1..Cardinality(S) |-> CHOOSE i \in S : Cardinality({ j \in S : j < i }) = k - 1 ]


-----------------------------------------------------------------------------
(* models.py *)

\* a relationship with no row (step3_data / step4_data is None)
NoRow == [ is_none |-> TRUE ]

IsRow(r) == ~ r.is_none

\* User.full_name
full_name(u) ==
    Or(Strip(StrOf(u.first_name) \o << " " >> \o StrOf(u.last_name)), u.username)

\* ManualPublication.to_dict
to_dict(self) ==
    [ id        |-> self.id,
      author    |-> self.author,
      title     |-> self.title,
      year      |-> self.publication_year,
      journal   |-> self.journal_or_booktitle,
      publisher |-> self.publisher,
      doi       |-> self.doi,
      url       |-> self.url ]

RECURSIVE Reverse(_)
Reverse(seq) == IF seq = << >> THEN << >> ELSE Append(Reverse(Tail(seq)), Head(seq))

\* get_gallery_images, were it to return the newest image first
get_gallery_images_NewestFirst(self) == Reverse(self.gallery_images)

\* Step4Gallery.get_gallery_images
get_gallery_images(self) == self.gallery_images

-----------------------------------------------------------------------------
(* utils.py *)

\* the existence check, were it left out
exists_Unchecked(filename) == TRUE

\* os.path.exists(get_uploaded_file_path(site.id, filename, upload_folder))
exists(filename) == filename \in disk

UpperLetters ==
    << "A", "B", "C", "D", "E", "F", "G", "H", "I", "J", "K", "L", "M",
       "N", "O", "P", "Q", "R", "S", "T", "U", "V", "W", "X", "Y", "Z" >>

LowerLetters ==
    << "a", "b", "c", "d", "e", "f", "g", "h", "i", "j", "k", "l", "m",
       "n", "o", "p", "q", "r", "s", "t", "u", "v", "w", "x", "y", "z" >>

LowerChar(c) ==
    IF \E n \in DOMAIN UpperLetters : UpperLetters[n] = c
    THEN LowerLetters[CHOOSE n \in DOMAIN UpperLetters : UpperLetters[n] = c]
    ELSE c

\* str.lower
Lower(text) == [ i \in DOMAIN text |-> LowerChar(text[i]) ]

\* the record parse_bibtex makes of one entry of the bibtexparser database
pub_dict(entry) ==
    [ key       |-> GetOr(entry, "ID"),
      type      |-> Lower(GetOr(entry, "ENTRYTYPE")),
      title     |-> GetOr(entry, "title"),
      author    |-> GetOr(entry, "author"),
      year      |-> GetOr(entry, "year"),
      journal   |-> GetOr(entry, "journal"),
      booktitle |-> GetOr(entry, "booktitle"),
      publisher |-> GetOr(entry, "publisher"),
      volume    |-> GetOr(entry, "volume"),
      pages     |-> GetOr(entry, "pages"),
      doi       |-> GetOr(entry, "doi"),
      url       |-> GetOr(entry, "url") ]

RECURSIVE TitledOnly(_)
\* the loop of parse_bibtex: a record is appended only if it has a title
TitledOnly(entries) ==
    IF entries = << >> THEN << >>
    ELSE (IF pub_dict(Head(entries)).title # << >>
          THEN << pub_dict(Head(entries)) >> ELSE << >>)
         \o TitledOnly(Tail(entries))

\* \w of the re module, for ASCII text
WordChars == Range(UpperLetters) \cup Range(LowerLetters) \cup Range(Digit) \cup { "_" }

\* \s of the re module
SpaceChars == { " ", "\n", "\t" }

Min(S) == CHOOSE x \in S : \A y \in S : x <= y

Max(S) == CHOOSE x \in S : \A y \in S : x >= y

\* where a greedy run of characters of class starting at i ends: the first
\* position from i on that is not in class, Len(text) + 1 if there is none
RunEnd(text, i, class) ==
    Min({ j \in i..(Len(text) + 1) : j = Len(text) + 1 \/ text[j] \notin class })

\* the same for a negated class [^...]
RunEndNot(text, i, class) ==
    Min({ j \in i..(Len(text) + 1) : j = Len(text) + 1 \/ text[j] \in class })

\* the positions of a newline that \n\s*\} matches from
Closers(text) ==
    { j \in DOMAIN text :
        /\ text[j] = "\n"
        /\ RunEnd(text, j + 1, SpaceChars) <= Len(text)
        /\ text[RunEnd(text, j + 1, SpaceChars)] = "}" }

\* where group 2 of the entry pattern can start after the brace at b: \s* is
\* greedy and gives characters back to [^,\n]+, which must end at a comma
KeyStarts(text, b) ==
    { g \in (b + 1)..RunEnd(text, b + 1, SpaceChars) :
        /\ RunEndNot(text, g, { ",", "\n" }) > g
        /\ RunEndNot(text, g, { ",", "\n" }) <= Len(text)
        /\ text[RunEndNot(text, g, { ",", "\n" })] = "," }

\* where group 3 can start after the comma at c: \s* is greedy and gives
\* characters back until a closing \n\s*\} is left to match
BodyStarts(text, c) ==
    { s \in (c + 1)..RunEnd(text, c + 1, SpaceChars) :
        \E j \in Closers(text) : j >= s }

\* pattern = r'@(\w+)\s*\{\s*([^,\n]+),\s*([\s\S]*?)\n\s*\}' matches at i
EntryMatchesAt(text, i) ==
    /\ text[i] = "@"
    /\ RunEnd(text, i + 1, WordChars) > i + 1
    /\ LET b == RunEnd(text, RunEnd(text, i + 1, WordChars), SpaceChars) IN
         /\ b <= Len(text)
         /\ text[b] = "{"
         /\ KeyStarts(text, b) # { }
         /\ BodyStarts(text, RunEndNot(text, Max(KeyStarts(text, b)), { ",", "\n" })) # { }

\* the groups of the match at i and the position after it
EntryMatch(text, i) ==
    LET w == RunEnd(text, i + 1, WordChars)
        b == RunEnd(text, w, SpaceChars)
        g == Max(KeyStarts(text, b))
        c == RunEndNot(text, g, { ",", "\n" })
        s == Max(BodyStarts(text, c))
        j == Min({ k \in Closers(text) : k >= s })
    IN  [ group1 |-> SubSeq(text, i + 1, w - 1),
          group2 |-> SubSeq(text, g, c - 1),
          group3 |-> SubSeq(text, s, j - 1),
          end    |-> RunEnd(text, j + 1, SpaceChars) + 1 ]

RECURSIVE EntryMatches(_, _)
\* re.finditer(pattern, text) from position p on
EntryMatches(text, p) ==
    IF \E i \in p..Len(text) : EntryMatchesAt(text, i)
    THEN LET m == EntryMatch(text, Min({ i \in p..Len(text) : EntryMatchesAt(text, i) }))
         IN  << m >> \o EntryMatches(text, m.end)
    ELSE << >>

\* field_pattern = r'(\w+)\s*=\s*(?:\{([^}]*)\}|"([^"]*)"|([^,\n}]*))' matches at i
FieldMatchesAt(text, i) ==
    /\ text[i] \in WordChars
    /\ LET q == RunEnd(text, RunEnd(text, i, WordChars), SpaceChars) IN
         q <= Len(text) /\ text[q] = "="

\* the field name, the value (group 2 or 3 or 4) and the position after the match
FieldMatch(text, i) ==
    LET w == RunEnd(text, i, WordChars)
        q == RunEnd(text, w, SpaceChars)
        v == RunEnd(text, q + 1, SpaceChars)
        name == SubSeq(text, i, w - 1)
    IN  IF v <= Len(text) /\ text[v] = "{" /\ RunEndNot(text, v + 1, { "}" }) <= Len(text)
        THEN [ name  |-> name,
               value |-> SubSeq(text, v + 1, RunEndNot(text, v + 1, { "}" }) - 1),
               end   |-> RunEndNot(text, v + 1, { "}" }) + 1 ]
        ELSE IF v <= Len(text) /\ text[v] = "\"" /\ RunEndNot(text, v + 1, { "\"" }) <= Len(text)
        THEN [ name  |-> name,
               value |-> SubSeq(text, v + 1, RunEndNot(text, v + 1, { "\"" }) - 1),
               end   |-> RunEndNot(text, v + 1, { "\"" }) + 1 ]
        ELSE [ name  |-> name,
               value |-> SubSeq(text, v, RunEndNot(text, v, { ",", "\n", "}" }) - 1),
               end   |-> RunEndNot(text, v, { ",", "\n", "}" }) ]

RECURSIVE FieldMatches(_, _)
\* re.finditer(field_pattern, entry_content) from position p on
FieldMatches(text, p) ==
    IF \E i \in p..Len(text) : FieldMatchesAt(text, i)
    THEN LET m == FieldMatch(text, Min({ i \in p..Len(text) : FieldMatchesAt(text, i) }))
         IN  << m >> \o FieldMatches(text, m.end)
    ELSE << >>

\* the keys of pub_dict, as the characters a field name is compared with
KeyChars ==
    [ key       |-> << "k", "e", "y" >>,
      type      |-> << "t", "y", "p", "e" >>,
      title     |-> << "t", "i", "t", "l", "e" >>,
      author    |-> << "a", "u", "t", "h", "o", "r" >>,
      year      |-> << "y", "e", "a", "r" >>,
      journal   |-> << "j", "o", "u", "r", "n", "a", "l" >>,
      booktitle |-> << "b", "o", "o", "k", "t", "i", "t", "l", "e" >>,
      publisher |-> << "p", "u", "b", "l", "i", "s", "h", "e", "r" >>,
      volume    |-> << "v", "o", "l", "u", "m", "e" >>,
      pages     |-> << "p", "a", "g", "e", "s" >>,
      doi       |-> << "d", "o", "i" >>,
      url       |-> << "u", "r", "l" >> ]

\* the record _parse_bibtex_regex makes of one match: key and type from the
\* header, then every field whose lower-cased name is a key of pub_dict is
\* assigned, a later one over an earlier one
regex_pub_dict(match) ==
    LET fields == FieldMatches(match.group3, 1)
        initial == [ k \in DOMAIN KeyChars |->
                       IF k = "key" THEN Strip(match.group2)
                       ELSE IF k = "type" THEN Lower(match.group1)
                       ELSE << >> ]
    IN  [ k \in DOMAIN KeyChars |->
            LET hits == { n \in DOMAIN fields : Lower(fields[n].name) = KeyChars[k] }
            IN  IF hits = { } THEN initial[k] ELSE Strip(fields[Max(hits)].value) ]

\* _parse_bibtex_regex
_parse_bibtex_regex(text) ==
    LET matches == EntryMatches(text, 1)
        titled == InOrder({ n \in DOMAIN matches : regex_pub_dict(matches[n]).title # << >> })
    IN  [ k \in DOMAIN titled |-> regex_pub_dict(matches[titled[k]]) ]

\* parse_bibtex: bibtex_content is modelled by its text, by whether the import
\* of bibtexparser fails, and by what bibtexparser.loads makes of the text, a
\* list of entries or an exception (only ImportError is caught)
parse_bibtex(content) ==
    IF content.import_error
    THEN [ raised |-> FALSE, value |-> _parse_bibtex_regex(content.text) ]
    ELSE IF content.raises
    THEN [ raised |-> TRUE, value |-> << >> ]
    ELSE [ raised |-> FALSE, value |-> TitledOnly(content.entries) ]

\* format_publication_html, were the url looked at before the doi
format_publication_html_UrlFirst(publication) ==
    Concat(<<
        IF Truthy(Get(publication, "author"))
        THEN publication.author \o << "." >> ELSE << >>,
        IF Truthy(Get(publication, "title"))
        THEN << " \"" >> \o publication.title \o << ".\"" >> ELSE << >>,
        IF Truthy(Get(publication, "journal"))
        THEN << " <em>" >> \o publication.journal \o << "</em>" >>
        ELSE IF Truthy(Get(publication, "booktitle"))
        THEN << " In <em>" >> \o publication.booktitle \o << "</em>" >>
        ELSE << >>,
        IF Truthy(Get(publication, "publisher"))
        THEN << " " >> \o publication.publisher ELSE << >>,
        IF Truthy(Get(publication, "year"))
        THEN << " (" >> \o publication.year \o << ")" >> ELSE << >>,
        IF Truthy(Get(publication, "url"))
        THEN << " <a href='" >> \o publication.url \o << "' target='_blank'>Link</a>" >>
        ELSE IF Truthy(Get(publication, "doi"))
        THEN << " <a href='https://doi.org/" >> \o publication.doi
             \o << "' target='_blank'>DOI</a>" >>
        ELSE << >>
    >>)

\* format_publication_html
format_publication_html(publication) ==
    Concat(<<
        IF Truthy(Get(publication, "author"))
        THEN publication.author \o << "." >> ELSE << >>,
        IF Truthy(Get(publication, "title"))
        THEN << " \"" >> \o publication.title \o << ".\"" >> ELSE << >>,
        IF Truthy(Get(publication, "journal"))
        THEN << " <em>" >> \o publication.journal \o << "</em>" >>
        ELSE IF Truthy(Get(publication, "booktitle"))
        THEN << " In <em>" >> \o publication.booktitle \o << "</em>" >>
        ELSE << >>,
        IF Truthy(Get(publication, "publisher"))
        THEN << " " >> \o publication.publisher ELSE << >>,
        IF Truthy(Get(publication, "year"))
        THEN << " (" >> \o publication.year \o << ")" >> ELSE << >>,
        IF Truthy(Get(publication, "doi"))
        THEN << " <a href='https://doi.org/" >> \o publication.doi
             \o << "' target='_blank'>DOI</a>" >>
        ELSE IF Truthy(Get(publication, "url"))
        THEN << " <a href='" >> \o publication.url \o << "' target='_blank'>Link</a>" >>
        ELSE << >>
    >>)

-----------------------------------------------------------------------------
(* routes/export.py: the pieces of _generate_wxr_content *)

\* datetime.utcnow().strftime(fmt): the format token followed by the clock
\* reading stands for the rendered time
strftime(fmt) == << fmt >> \o Str(now)

\* _escape_xml, were the ampersand replaced last
_escape_xml_AmpersandLast(text) ==
    IF ~ Truthy(text) THEN << >>
    ELSE Replace(Replace(Replace(Replace(Replace(text,
             "<", << "&", "l", "t", ";" >>),
             ">", << "&", "g", "t", ";" >>),
             "\"", << "&", "q", "u", "o", "t", ";" >>),
             "'", << "&", "a", "p", "o", "s", ";" >>),
             "&", << "&", "a", "m", "p", ";" >>)

\* _escape_xml
_escape_xml(text) ==
    IF ~ Truthy(text) THEN << >>
    ELSE Replace(Replace(Replace(Replace(Replace(text,
             "&", << "&", "a", "m", "p", ";" >>),
             "<", << "&", "l", "t", ";" >>),
             ">", << "&", "g", "t", ";" >>),
             "\"", << "&", "q", "u", "o", "t", ";" >>),
             "'", << "&", "a", "p", "o", "s", ";" >>)

\* the lines written before the first item
HeaderLines ==
    << << "<?xml version=\"1.0\" encoding=\"UTF-8\"?>" >>,
       << "<rss version=\"2.0\"" >>,
       << "    xmlns:excerpt=\"http://wordpress.org/export/1.2/excerpt/\"" >>,
       << "    xmlns:content=\"http://purl.org/rss/1.0/modules/content/\"" >>,
       << "    xmlns:wfw=\"http://wellformedweb.org/CommentAPI/\"" >>,
       << "    xmlns:dc=\"http://purl.org/dc/elements/1.1/\"" >>,
       << "    xmlns:wp=\"http://wordpress.org/export/1.2/\">" >>,
       << "  <channel>" >>,
       << "    <title>" >> \o _escape_xml(site.site_name) \o << "</title>" >>,
       << "    <link>https://example.com</link>" >>,
       << "    <description>WordPress site for " >> \o _escape_xml(full_name(user))
           \o << "</description>" >>,
       << "    <language>en-us</language>" >>,
       << "    <pubDate>" >> \o strftime("%a, %d %b %Y %H:%M:%S +0000") \o << "</pubDate>" >>,
       << "    <lastBuildDate>" >> \o strftime("%a, %d %b %Y %H:%M:%S +0000")
           \o << "</lastBuildDate>" >>,
       << "    <generator>https://github.com/mit-libraries/wordpress-site-generator</generator>" >>,
       << "    <wp:wxr_version>1.2</wp:wxr_version>" >>,
       << "    <wp:base>https://example.com/index.php/</wp:base>" >>,
       << "    <wp:blog_name>" >> \o _escape_xml(site.site_name) \o << "</wp:blog_name>" >>,
       << "    <wp:author>" >>,
       << "      <wp:author_login>" >> \o _escape_xml(user.username)
           \o << "</wp:author_login>" >>,
       << "      <wp:author_email>" >> \o _escape_xml(Or(user.email, user.username))
           \o << "</wp:author_email>" >>,
       << "      <wp:author_first_name>" >> \o _escape_xml(Or(user.first_name, << >>))
           \o << "</wp:author_first_name>" >>,
       << "      <wp:author_last_name>" >> \o _escape_xml(Or(user.last_name, << >>))
           \o << "</wp:author_last_name>" >>,
       << "    </wp:author>" >> >>

\* _create_attachment_xml
_create_attachment_xml(u, filename, post_id) ==
    << << "    <item>" >>,
       << "      <title>" >> \o _escape_xml(filename) \o << "</title>" >>,
       << "      <description></description>" >>,
       << "      <wp:post_id>" >> \o Str(post_id) \o << "</wp:post_id>" >>,
       << "      <wp:status>inherit</wp:status>" >>,
       << "      <wp:post_type>attachment</wp:post_type>" >>,
       << "      <wp:post_parent>0</wp:post_parent>" >>,
       << "      <wp:attachment_url>https://example.com/uploads/" >> \o _escape_xml(filename)
           \o << "</wp:attachment_url>" >>,
       << "      <dc:creator>" >> \o _escape_xml(u.username) \o << "</dc:creator>" >>,
       << "      <pubDate>" >> \o strftime("%a, %d %b %Y %H:%M:%S +0000") \o << "</pubDate>" >>,
       << "      <wp:post_date>" >> \o strftime("%Y-%m-%d %H:%M:%S") \o << "</wp:post_date>" >>,
       << "      <wp:post_date_gmt>" >> \o strftime("%Y-%m-%d %H:%M:%S")
           \o << "</wp:post_date_gmt>" >>,
       << "    </item>" >> >>

\* _create_page_xml
_create_page_xml(u, title, content, post_id) ==
    << << "    <item>" >>,
       << "      <title>" >> \o _escape_xml(title) \o << "</title>" >>,
       << "      <wp:post_id>" >> \o Str(post_id) \o << "</wp:post_id>" >>,
       << "      <wp:status>publish</wp:status>" >>,
       << "      <wp:post_type>page</wp:post_type>" >>,
       << "      <wp:post_parent>0</wp:post_parent>" >>,
       << "      <wp:menu_order>0</wp:menu_order>" >>,
       << "      <wp:is_sticky>0</wp:is_sticky>" >>,
       << "      <content:encoded><![CDATA[" >> \o content \o << "]]></content:encoded>" >>,
       << "      <dc:creator>" >> \o _escape_xml(u.username) \o << "</dc:creator>" >>,
       << "      <pubDate>" >> \o strftime("%a, %d %b %Y %H:%M:%S +0000") \o << "</pubDate>" >>,
       << "      <wp:post_date>" >> \o strftime("%Y-%m-%d %H:%M:%S") \o << "</wp:post_date>" >>,
       << "      <wp:post_date_gmt>" >> \o strftime("%Y-%m-%d %H:%M:%S")
           \o << "</wp:post_date_gmt>" >>,
       << "    </item>" >> >>

\* _build_homepage_content
_build_homepage_content(s1, s2, pp_post_id) ==
    LET image ==
            IF pp_post_id # 0
            THEN << << "<!-- wp:image {\"id\":" >> \o Str(pp_post_id)
                       \o << ",\"sizeSlug\":\"large\",\"linkDestination\":\"none\"} -->" >>,
                    << "<figure class=\"wp-block-image size-large\"><img src=\"https://example.com/uploads/profile.jpg\" alt=\"Profile Picture\" class=\"wp-image-" >>
                       \o Str(pp_post_id) \o << "\" /></figure>" >>,
                    << "<!-- /wp:image -->" >>,
                    << >> >>
            ELSE << >>
        heading ==
            IF Truthy(s1.title_role)
            THEN << << "<!-- wp:heading {\"level\":2} -->" >>,
                    << "<h2 class=\"wp-block-heading\">" >> \o _escape_xml(s1.title_role)
                       \o << "</h2>" >>,
                    << "<!-- /wp:heading -->" >>,
                    << >> >>
            ELSE << >>
        contact_parts ==
            (IF Truthy(s1.department)
             THEN << << "<strong>Department:</strong> " >> \o _escape_xml(s1.department) >>
             ELSE << >>)
            \o (IF Truthy(s1.field_of_study)
                THEN << << "<strong>Field of Study:</strong> " >>
                        \o _escape_xml(s1.field_of_study) >>
                ELSE << >>)
            \o (IF Truthy(s1.email)
                THEN << << "<strong>Email:</strong> <a href=\"mailto:" >>
                        \o _escape_xml(s1.email) \o << "\">" >>
                        \o _escape_xml(s1.email) \o << "</a>" >> >>
                ELSE << >>)
            \o (IF Truthy(s1.office_address)
                THEN << << "<strong>Office:</strong> " >> \o _escape_xml(s1.office_address) >>
                ELSE << >>)
            \o (IF Truthy(s1.phone_number)
                THEN << << "<strong>Phone:</strong> " >> \o _escape_xml(s1.phone_number) >>
                ELSE << >>)
        contact ==
            IF contact_parts # << >>
            THEN << << "<!-- wp:paragraph -->" >>,
                    << "<p class=\"wp-block-paragraph\">" >>
                       \o Join(contact_parts, << "<br />" >>) \o << "</p>" >>,
                    << "<!-- /wp:paragraph -->" >>,
                    << >> >>
            ELSE << >>
        biography ==
            IF Truthy(s2.biography)
            THEN << << "<!-- wp:heading {\"level\":3} -->" >>,
                    << "<h3 class=\"wp-block-heading\">About</h3>" >>,
                    << "<!-- /wp:heading -->" >>,
                    << >>,
                    << "<!-- wp:paragraph -->" >>,
                    << "<p class=\"wp-block-paragraph\">" >> \o _escape_xml(s2.biography)
                       \o << "</p>" >>,
                    << "<!-- /wp:paragraph -->" >> >>
            ELSE << >>
    IN  Join(image \o heading \o contact \o biography, << "\n" >>)

\* the paragraph block _build_publications_html writes for one publication
PublicationBlock(pub) ==
    << << "<!-- wp:paragraph -->" >>,
       << "<p class=\"wp-block-paragraph\">" >> \o format_publication_html(pub) \o << "</p>" >>,
       << "<!-- /wp:paragraph -->" >> >>

RECURSIVE PublicationBlocks(_)
PublicationBlocks(pubs) ==
    IF pubs = << >> THEN << >>
    ELSE PublicationBlock(Head(pubs)) \o PublicationBlocks(Tail(pubs))

\* all_pubs, were the manual records put first
all_pubs_ManualFirst(publications, manual_publications) ==
    [ i \in DOMAIN manual_publications |-> to_dict(manual_publications[i]) ] \o publications

\* all_pubs of _build_publications_html: the parsed records, then the dicts
\* of the manual records
all_pubs(publications, manual_publications) ==
    publications \o [ i \in DOMAIN manual_publications |-> to_dict(manual_publications[i]) ]

\* _build_publications_html
_build_publications_html(publications, manual_publications) ==
    LET heading == << << "<!-- wp:heading {\"level\":2} -->" >>,
                      << "<h2 class=\"wp-block-heading\">Publications</h2>" >>,
                      << "<!-- /wp:heading -->" >>,
                      << >> >>
        pubs == all_pubs(publications, manual_publications)
    IN  IF pubs = << >>
        THEN Join(heading \o << << "<!-- wp:paragraph -->" >>,
                                << "<p class=\"wp-block-paragraph\">No publications listed.</p>" >>,
                                << "<!-- /wp:paragraph -->" >> >>, << "\n" >>)
        ELSE Join(heading \o PublicationBlocks(pubs), << "\n" >>)

\* ids_string, were the last id cut off
ids_string_LastDropped(ids) ==
    Join([ i \in 1..(Len(ids) - 1) |-> Str(ids[i]) ], << "," >>)

\* ','.join(str(id) for id in gallery_post_ids)
ids_string(ids) == Join([ i \in DOMAIN ids |-> Str(ids[i]) ], << "," >>)

\* the <li> line _build_gallery_html writes for one id
GalleryItemLine(post_id) ==
    << "<li class=\"blocks-gallery-item\"><figure><img src=\"https://example.com/uploads/image" >>
    \o Str(post_id) \o << ".jpg\" alt=\"\" class=\"wp-image-" >> \o Str(post_id)
    \o << "\" /></figure></li>" >>

\* _build_gallery_html
_build_gallery_html(ids) ==
    LET heading == << << "<!-- wp:heading {\"level\":2} -->" >>,
                      << "<h2 class=\"wp-block-heading\">Gallery</h2>" >>,
                      << "<!-- /wp:heading -->" >>,
                      << >> >>
    IN  IF ids = << >>
        THEN Join(heading \o << << "<!-- wp:paragraph -->" >>,
                                << "<p class=\"wp-block-paragraph\">No gallery images.</p>" >>,
                                << "<!-- /wp:paragraph -->" >> >>, << "\n" >>)
        ELSE Join(heading
                  \o << << "<!-- wp:gallery ", "{\"ids\":[" >> \o ids_string(ids)
                           \o << "],\"columns\":3,\"size\":\"large\",\"linkTo\":\"none\"}", " -->" >>,
                        << "<figure class=\"wp-block-gallery has-nested-images columns-3 is-cropped\">" >>,
                        << "<ul class=\"blocks-gallery-grid\">" >> >>
                  \o [ i \in DOMAIN ids |-> GalleryItemLine(ids[i]) ]
                  \o << << "</ul>" >>,
                        << "</figure>" >>,
                        << "<!-- /wp:gallery -->" >> >>,
                  << "\n" >>)

-----------------------------------------------------------------------------
(* wxr_generator.py: the pieces of generate_wxr_file *)

\* SubElement(parent, tag) with its text
Element(tag, text) == [ tag |-> tag, text |-> text, children |-> << >> ]

\* _add_channel_metadata
_add_channel_metadata(s, u) ==
    << Element("title", s.site_name),
       Element("link", << "https://example.com" >>),
       Element("description", << "WordPress site for " >> \o full_name(u)),
       Element("language", << "en-us" >>),
       Element("pubDate", strftime("%a, %d %b %Y %H:%M:%S +0000")),
       Element("lastBuildDate", strftime("%a, %d %b %Y %H:%M:%S +0000")),
       Element("generator", << "https://github.com/mit-libraries/wordpress-site-generator" >>),
       Element("wp:wxr_version", << "1.2" >>),
       Element("wp:base", << "https://example.com/index.php/" >>),
       Element("wp:blog_name", s.site_name),
       [ tag |-> "wp:author", text |-> << >>,
         children |-> << Element("wp:author_login", u.username),
                         Element("wp:author_email", Or(u.email, u.username)),
                         Element("wp:author_first_name", Or(u.first_name, << >>)),
                         Element("wp:author_last_name", Or(u.last_name, << >>)) >> ] >>

\* _create_page_item
_create_page_item(u, title, content, post_id) ==
    [ tag |-> "item", text |-> << >>,
      children |-> << Element("title", title),
                      Element("wp:post_id", Str(post_id)),
                      Element("wp:status", << "publish" >>),
                      Element("wp:post_type", << "page" >>),
                      Element("wp:post_parent", << "0" >>),
                      Element("wp:menu_order", << "0" >>),
                      Element("wp:is_sticky", << "0" >>),
                      Element("content:encoded", content),
                      Element("dc:creator", u.username),
                      Element("pubDate", strftime("%a, %d %b %Y %H:%M:%S +0000")),
                      Element("wp:post_date", strftime("%Y-%m-%d %H:%M:%S")),
                      Element("wp:post_date_gmt", strftime("%Y-%m-%d %H:%M:%S")) >> ]

\* _create_attachment_item
_create_attachment_item(u, filename, post_id) ==
    [ tag |-> "item", text |-> << >>,
      children |-> << Element("title", filename),
                      Element("description", << >>),
                      Element("wp:post_id", Str(post_id)),
                      Element("wp:status", << "inherit" >>),
                      Element("wp:post_type", << "attachment" >>),
                      Element("wp:post_parent", << "0" >>),
                      Element("wp:attachment_url",
                              << "https://example.com/uploads/" >> \o filename),
                      Element("dc:creator", u.username),
                      Element("pubDate", strftime("%a, %d %b %Y %H:%M:%S +0000")),
                      Element("wp:post_date", strftime("%Y-%m-%d %H:%M:%S")),
                      Element("wp:post_date_gmt", strftime("%Y-%m-%d %H:%M:%S")) >> ]

\* wxr_generator._build_homepage_content (no escaping of the fields)
Gen_build_homepage_content(s1, s2, pp_post_id) ==
    LET image ==
            IF pp_post_id # 0
            THEN << << "<!-- wp:image {\"id\":" >> \o Str(pp_post_id)
                    \o << ",\"align\":\"center\",\"width\":300,\"height\":300} -->", "\n",
                          "<figure class=\"wp-block-image aligncenter\" style=\"width:300px;height:300px;\"><img src=\"https://example.com/uploads/profile.jpg\" alt=\"Profile Picture\" class=\"wp-image-" >>
                    \o Str(pp_post_id)
                    \o << "\" width=\"300\" height=\"300\" /></figure>", "\n",
                          "<!-- /wp:image -->" >> >>
            ELSE << >>
        heading ==
            IF Truthy(s1.title_role)
            THEN << << "<!-- wp:heading -->", "\n", "<h2>" >> \o s1.title_role
                    \o << "</h2>", "\n", "<!-- /wp:heading -->" >> >>
            ELSE << >>
        contact_parts ==
            (IF Truthy(s1.department)
             THEN << << "<strong>Department:</strong> " >> \o s1.department >> ELSE << >>)
            \o (IF Truthy(s1.field_of_study)
                THEN << << "<strong>Field of Study:</strong> " >> \o s1.field_of_study >>
                ELSE << >>)
            \o (IF Truthy(s1.email)
                THEN << << "<strong>Email:</strong> <a href=\"mailto:" >> \o s1.email
                        \o << "\">" >> \o s1.email \o << "</a>" >> >>
                ELSE << >>)
            \o (IF Truthy(s1.office_address)
                THEN << << "<strong>Office:</strong> " >> \o s1.office_address >> ELSE << >>)
            \o (IF Truthy(s1.phone_number)
                THEN << << "<strong>Phone:</strong> " >> \o s1.phone_number >> ELSE << >>)
        contact ==
            IF contact_parts # << >>
            THEN << << "<!-- wp:paragraph -->" >>,
                    << "<p>" >> \o Join(contact_parts, << "<br>" >>) \o << "</p>" >>,
                    << "<!-- /wp:paragraph -->" >> >>
            ELSE << >>
        biography ==
            IF Truthy(s2.biography)
            THEN << << "<!-- wp:heading -->", "\n", "<h3>About</h3>", "\n",
                       "<!-- /wp:heading -->" >>,
                    << "<!-- wp:paragraph -->", "\n", "<p>" >> \o s2.biography
                       \o << "</p>", "\n", "<!-- /wp:paragraph -->" >> >>
            ELSE << >>
    IN  Join(image \o heading \o contact \o biography, << "\n" >>)

\* wxr_generator._build_publications_html (an ordered list, parsed records only)
Gen_build_publications_html(publications) ==
    LET heading == << << "<!-- wp:heading -->", "\n", "<h2>Publications</h2>", "\n",
                         "<!-- /wp:heading -->" >> >>
    IN  IF publications = << >>
        THEN Join(heading \o << << "<!-- wp:paragraph -->", "\n",
                                   "<p>No publications listed.</p>", "\n",
                                   "<!-- /wp:paragraph -->" >> >>, << "\n" >>)
        ELSE Join(heading
                  \o << << "<!-- wp:list -->", "\n", "<ol>" >> >>
                  \o [ i \in DOMAIN publications |->
                         << "<li>" >> \o format_publication_html(publications[i])
                         \o << "</li>" >> ]
                  \o << << "</ol>", "\n", "<!-- /wp:list -->" >> >>,
                  << "\n" >>)

\* wxr_generator._build_gallery_html
Gen_build_gallery_html(ids) ==
    Join(<< << "<!-- wp:heading -->", "\n", "<h2>Gallery</h2>", "\n", "<!-- /wp:heading -->" >>,
            << "<!-- wp:gallery ", "{\"ids\":[" >> \o ids_string(ids) \o << "]} -->" >>,
            << "<figure class=\"wp-block-gallery has-nested-images columns-default is-cropped\">" >>,
            << "<ul class=\"blocks-gallery-grid\">" >> >>
         \o [ i \in DOMAIN ids |->
                << "<li class=\"blocks-gallery-item\"><figure><img src=\"https://example.com/uploads/image" >>
                \o Str(ids[i]) \o << ".jpg\" alt=\"\" data-id=\"" >> \o Str(ids[i])
                \o << "\" data-full-url=\"https://example.com/uploads/image" >> \o Str(ids[i])
                \o << ".jpg\" data-link=\"https://example.com/?p=" >> \o Str(ids[i])
                \o << "\" class=\"wp-image-" >> \o Str(ids[i])
                \o << "\" /></figure></li>" >> ]
         \o << << "</ul></figure>" >>,
               << "<!-- /wp:gallery -->" >> >>,
         << "\n" >>)

-----------------------------------------------------------------------------
(* The records a build is called with *)

Users ==
    { [ id |-> 1, username |-> << "u" >>, email |-> None,
        first_name |-> None, last_name |-> None ],
      [ id |-> 1, username |-> << "u", "&" >>, email |-> << "e" >>,
        first_name |-> << "F" >>, last_name |-> << "<" >> ],
      [ id |-> 1, username |-> << "w" >>, email |-> << >>,
        first_name |-> << >>, last_name |-> << "L", ">" >> ] }

\* the site name holds text that is an entity already
Sites == { [ id |-> 1, user_id |-> 1, site_name |-> << "S", "&", "a", "m", "p", ";" >> ] }

Step1Rows ==
    { [ is_none |-> FALSE, title_role |-> None, department |-> None,
        field_of_study |-> None, email |-> None, office_address |-> None,
        phone_number |-> None ],
      [ is_none |-> FALSE, title_role |-> << "<", "]", "]", ">" >>,
        department |-> << "d" >>, field_of_study |-> None, email |-> << "e", "&" >>,
        office_address |-> << >>, phone_number |-> << "7" >> ] }

Step2Rows ==
    { [ is_none |-> FALSE, biography |-> None ],
      [ is_none |-> FALSE, biography |-> << "]", "]", ">", "&" >> ] }

\* the rows a site can have for steps 1 and 2 together with its user
Persons ==
    { p \in [ user : Users, step1 : Step1Rows, step2 : Step2Rows ] :
        (p.user.email = None) = (p.step1.title_role = None)
        /\ (p.user.email = None) = (p.step2.biography = None) }

\* the i-th entry of a text as bibtexparser returns it, with or without a
\* title; the titled entries share one citation key
EntryAt(i, titled) ==
    IF ~ titled
    THEN [ ID |-> << "n" >>, ENTRYTYPE |-> << "a" >>, author |-> << "a" >> ]
    ELSE IF i % 2 = 1
    THEN [ ID |-> << "k" >>, ENTRYTYPE |-> << "A" >>, title |-> << "t" >>,
           author |-> << "a" >>, year |-> << "1" >>, doi |-> << "d" >>, url |-> << "u" >> ]
    ELSE [ ID |-> << "k" >>, ENTRYTYPE |-> << "b" >>, title |-> << "]", "]", ">" >>,
           booktitle |-> << "<" >> ]

\* Step3Publications.bibtex_content: None or '', a text bibtexparser fails
\* on, or a text with the entries bibtexparser finds in it; the library is
\* installed, so the text itself is not read
BibtexContents ==
    { [ empty |-> TRUE, import_error |-> FALSE, raises |-> FALSE, entries |-> << >> ],
      [ empty |-> FALSE, import_error |-> FALSE, raises |-> TRUE, entries |-> << >> ] }
    \cup { [ empty |-> FALSE, import_error |-> FALSE, raises |-> FALSE,
             entries |-> [ i \in 1..k |-> EntryAt(i, i \notin untitled) ] ] :
             k \in 0..MaxBib, untitled \in SUBSET (1..MaxBib) }

\* the i-th ManualPublication row of a site; author and title are not null
ManualRow(i) ==
    IF i % 2 = 1
    THEN [ id |-> i, author |-> << "a" >>, title |-> << "t" >>,
           publication_year |-> << "1" >>, journal_or_booktitle |-> None,
           publisher |-> None, doi |-> << "d" >>, url |-> << "u" >> ]
    ELSE [ id |-> i, author |-> << "b" >>, title |-> << "]", "]", ">" >>,
           publication_year |-> None, journal_or_booktitle |-> << "j" >>,
           publisher |-> << "p" >>, doi |-> None, url |-> << "u" >> ]

ManualLists == { [ i \in 1..k |-> ManualRow(i) ] : k \in 0..MaxManual }

Step3Rows ==
    { NoRow }
    \cup { [ is_none |-> FALSE, bibtex_content |-> b, manual_publications |-> m ] :
             b \in BibtexContents, m \in ManualLists }

\* one field of an entry of a BibTeX text: its name, its value, how the value
\* is written (in braces, in double quotes or bare) and whether blanks are
\* written around the = and around the value
FieldAs(name, value, form, pad) ==
    [ name |-> name, value |-> value, form |-> form, pad |-> pad ]

\* a field written name={value}
Field(name, value) == FieldAs(name, value, "brace", FALSE)

\* the characters of a field name; foo is a field pub_dict has no key for
FieldChars(name) == IF name = "foo" THEN << "f", "o", "o" >> ELSE KeyChars[name]

\* the entries BibTeX texts are made of: entry type, citation key, fields, and
\* whether the entry is written on one line or with one field per line
EntryShapes ==
    { [ type |-> << "A" >>, key |-> << "k" >>, inline |-> FALSE,
        fields |-> << Field("title", << "t" >>), Field("author", << "a" >>),
                      Field("foo", << "x" >>) >> ],
      [ type |-> << "b" >>, key |-> << "k" >>, inline |-> FALSE,
        fields |-> << Field("title", << "u" >>) >> ],
      [ type |-> << "a" >>, key |-> << "n" >>, inline |-> FALSE,
        fields |-> << Field("author", << "x" >>) >> ],
      [ type |-> << "a" >>, key |-> << "e" >>, inline |-> FALSE,
        fields |-> << Field("title", << >>) >> ],
      [ type |-> << "A" >>, key |-> << "k" >>, inline |-> FALSE,
        fields |-> << Field("title", << "t" >>), Field("type", << "x" >>),
                      Field("key", << "y" >>) >> ],
      [ type |-> << "a" >>, key |-> << "s" >>, inline |-> TRUE,
        fields |-> << Field("title", << "t" >>) >> ],
      [ type |-> << "a" >>, key |-> << "q" >>, inline |-> TRUE,
        fields |-> << Field("author", << "x" >>) >> ],
      [ type |-> << "a" >>, key |-> << "m" >>, inline |-> FALSE,
        fields |-> << FieldAs("title", << "v" >>, "bare", FALSE) >> ],
      [ type |-> << "a" >>, key |-> << "d" >>, inline |-> FALSE,
        fields |-> << FieldAs("title", << "t" >>, "quote", TRUE),
                      FieldAs("author", << "a" >>, "brace", TRUE),
                      FieldAs("year", << "1" >>, "bare", TRUE) >> ],
      [ type |-> << "a" >>, key |-> << "x" >>, inline |-> FALSE,
        fields |-> << Field("title", << "{", "X", "}" >>) >> ] }

\* @article{doe2023, title={A Study}, author={Doe, J.}, year={2023}}
DoeEntry(inline) ==
    [ type |-> << "a", "r", "t", "i", "c", "l", "e" >>,
      key |-> << "d", "o", "e", "2", "0", "2", "3" >>,
      inline |-> inline,
      fields |-> << Field("title", << "A", " ", "S", "t", "u", "d", "y" >>),
                    Field("author", << "D", "o", "e", ",", " ", "J", "." >>),
                    Field("year", << "2", "0", "2", "3" >>) >> ]

\* the text of one field
FieldText(f) ==
    LET blank == IF f.pad THEN << " " >> ELSE << >>
        open == IF f.form = "brace" THEN << "{" >>
                ELSE IF f.form = "quote" THEN << "\"" >> ELSE << >>
        close == IF f.form = "brace" THEN << "}" >>
                 ELSE IF f.form = "quote" THEN << "\"" >> ELSE << >>
    IN  FieldChars(f.name) \o blank \o << "=" >> \o blank
        \o open \o (IF f.form = "bare" THEN << >> ELSE blank) \o f.value \o blank \o close

\* the text of one entry: on one line, or the header, one field per line and
\* the closing brace on a line of its own
EntryText(e) ==
    IF e.inline
    THEN << "@" >> \o e.type \o << "{" >> \o e.key \o << ",", " " >>
         \o Join([ n \in DOMAIN e.fields |-> FieldText(e.fields[n]) ], << ",", " " >>)
         \o << "}" >>
    ELSE << "@" >> \o e.type \o << "{" >> \o e.key \o << ",", "\n" >>
         \o Join([ n \in DOMAIN e.fields |-> << " ", " " >> \o FieldText(e.fields[n]) ],
                 << ",", "\n" >>)
         \o << "\n", "}" >>

\* the entry bibtexparser.loads returns for an entry of the text
LoadedEntry(e) ==
    [ k \in { "ID", "ENTRYTYPE" } \cup { e.fields[n].name : n \in DOMAIN e.fields } |->
        IF k = "ID" THEN e.key
        ELSE IF k = "ENTRYTYPE" THEN e.type
        ELSE e.fields[CHOOSE n \in DOMAIN e.fields : e.fields[n].name = k].value ]

\* a BibTeX text of the given entries, one after the other: the text, what
\* bibtexparser.loads makes of it (it raises UndefinedString for a string
\* macro that is not defined), and whether the import of bibtexparser fails
BibtexOf(entries, import_error) ==
    [ empty        |-> entries = << >>,
      import_error |-> import_error,
      raises       |-> \E n \in DOMAIN entries :
                          \E m \in DOMAIN entries[n].fields :
                             /\ entries[n].fields[m].form = "bare"
                             /\ \E i \in DOMAIN entries[n].fields[m].value :
                                   ~ IsDigit(entries[n].fields[m].value[i]),
      entries      |-> [ n \in DOMAIN entries |-> LoadedEntry(entries[n]) ],
      text         |-> Join([ n \in DOMAIN entries |-> EntryText(entries[n]) ], << "\n" >>),
      source       |-> entries ]

\* the texts parse_bibtex is called with
BibtexTexts ==
    { << DoeEntry(TRUE) >>, << DoeEntry(FALSE) >> }
    \cup UNION { [ 1..k -> EntryShapes ] : k \in 0..MaxEntries }

\* filenames as save_uploaded_file makes them: unique, no markup characters
GalleryName(i) == << "g", Digit[i + 1] >>

ProfileNames == { << "p" >> }

\* the names are unique and opaque, so the i-th stored image is named g<i>
Step4Rows ==
    { NoRow }
    \cup { [ is_none |-> FALSE, profile_picture |-> pp, gallery_images |-> g ] :
             pp \in { None } \cup ProfileNames,
             g \in { [ i \in 1..k |-> GalleryName(i) ] : k \in 0..MaxGallery } }

\* the filenames a Step4Gallery row names
FilesOf(s4) ==
    IF s4.is_none THEN { }
    ELSE Range(s4.gallery_images)
         \cup (IF Truthy(s4.profile_picture) THEN { s4.profile_picture } ELSE { })

-----------------------------------------------------------------------------
(* The items of the document built so far, read back from the output *)

Item(kind, title, post_id, content) ==
    [ kind |-> kind, title |-> title, post_id |-> post_id, content |-> content ]

\* the line of an item that starts with open and ends with close, 0 if none
LineOf(lines, open, close) ==
    IF \E n \in DOMAIN lines : lines[n][1] = open /\ lines[n][Len(lines[n])] = close
    THEN CHOOSE n \in DOMAIN lines : lines[n][1] = open /\ lines[n][Len(lines[n])] = close
    ELSE 0

\* the text between open and close of that line
Inner(lines, open, close) ==
    LET l == lines[LineOf(lines, open, close)] IN SubSeq(l, 2, Len(l) - 1)

\* one <item> ... </item> group of lines of export.py
ItemOfLines(lines) ==
    Item(IF \E n \in DOMAIN lines :
               lines[n] = << "      <wp:post_type>attachment</wp:post_type>" >>
         THEN "attachment" ELSE "page",
         Inner(lines, "      <title>", "</title>"),
         ParseInt(Inner(lines, "      <wp:post_id>", "</wp:post_id>")),
         IF LineOf(lines, "      <content:encoded><![CDATA[", "]]></content:encoded>") # 0
         THEN Inner(lines, "      <content:encoded><![CDATA[", "]]></content:encoded>")
         ELSE << >>)

\* the items of lines: each <item> line up to the next </item> line
ItemsOfLines(lines) ==
    LET closes(i) == { j \in (i + 1)..Len(lines) : lines[j] = << "    </item>" >> }
        opens == InOrder({ i \in DOMAIN lines :
                             lines[i] = << "    <item>" >> /\ closes(i) # { } })
    IN  [ k \in DOMAIN opens |->
            LET i == opens[k]
                j == CHOOSE j \in closes(i) : \A m \in closes(i) : j <= m
            IN  ItemOfLines(SubSeq(lines, i, j)) ]

\* the text of the child of an element with the given tag
ChildText(element, tag) ==
    element.children[CHOOSE n \in DOMAIN element.children : element.children[n].tag = tag].text

HasChild(element, tag) == \E n \in DOMAIN element.children : element.children[n].tag = tag

\* one <item> element of wxr_generator.py
ItemOfElement(element) ==
    Item(IF ChildText(element, "wp:post_type") = << "attachment" >>
         THEN "attachment" ELSE "page",
         ChildText(element, "title"),
         ParseInt(ChildText(element, "wp:post_id")),
         IF HasChild(element, "content:encoded")
         THEN ChildText(element, "content:encoded") ELSE << >>)

RECURSIVE ItemsOfChannel(_)
ItemsOfChannel(children) ==
    IF children = << >> THEN << >>
    ELSE (IF Head(children).tag = "item" THEN << ItemOfElement(Head(children)) >> ELSE << >>)
         \o ItemsOfChannel(Tail(children))

\* the items emitted so far, in emission order
Items == IF builder = "content" THEN ItemsOfLines(xml_lines) ELSE ItemsOfChannel(channel)

-----------------------------------------------------------------------------
(* The pass of _generate_wxr_content and of generate_wxr_file *)

\* a session with no export stored: session.get gives None
NoSession == [ wxr_data |-> None, wxr_filename |-> None ]

\* parse_bibtex has not been called
NotCalled == [ raised |-> FALSE, value |-> << >> ]

\* no call of format_publication_html was made: no argument, nothing returned
NoPublication == [ is_none |-> TRUE ]

\* no file was sent
NoFile == [ wxr_data |-> None, download_name |-> None ]

Init ==
    /\ builder \in { "content", "file" }
    /\ site \in Sites
    /\ \E p \in Persons :
          /\ user = p.user
          /\ step1_data = p.step1
          /\ step2_data = p.step2
    /\ step3_data \in Step3Rows
    /\ step4_data \in Step4Rows
    /\ disk \in SUBSET FilesOf(step4_data)
    /\ pc = "start"
    /\ idx = 1
    /\ post_id_counter = 0
    /\ gallery_post_ids = << >>
    /\ profile_picture_post_id = 0
    /\ xml_lines = << >>
    /\ channel = << >>
    /\ now = 0
    /\ session = NoSession
    /\ flashes = << >>
    /\ bibtex_content = BibtexOf(<< >>, FALSE)
    /\ parse_result = NotCalled
    /\ format_arg = NoPublication
    /\ format_result = None
    /\ delivered = NoFile
    /\ writes = 0

\* emit one item: extend xml_lines or append a child to channel
Emit(lines, element) ==
    /\ xml_lines' = IF builder = "content" THEN xml_lines \o lines ELSE xml_lines
    /\ channel' = IF builder = "content" THEN channel ELSE Append(channel, element)

EmitAttachment(filename, post_id) ==
    Emit(_create_attachment_xml(user, filename, post_id),
         _create_attachment_item(user, filename, post_id))

\* the gallery list the first loop runs over
GalleryImages == IF IsRow(step4_data) THEN get_gallery_images(step4_data) ELSE << >>

\* Start, were the counter to begin at 0
Start_CounterFromZero ==
    /\ pc = "start"
    /\ xml_lines' = IF builder = "content" THEN HeaderLines ELSE xml_lines
    /\ channel' = IF builder = "content" THEN channel ELSE _add_channel_metadata(site, user)
    /\ post_id_counter' = 0
    /\ pc' = "gallery"
    /\ UNCHANGED << inputs, route, parsing, formatting, delivered, idx, gallery_post_ids, profile_picture_post_id >>

\* channel metadata, post_id_counter = 1
Start ==
    /\ pc = "start"
    /\ xml_lines' = IF builder = "content" THEN HeaderLines ELSE xml_lines
    /\ channel' = IF builder = "content" THEN channel ELSE _add_channel_metadata(site, user)
    /\ post_id_counter' = 1
    /\ pc' = "gallery"
    /\ UNCHANGED << inputs, route, parsing, formatting, delivered, idx, gallery_post_ids, profile_picture_post_id >>

\* one turn of the loop over the gallery images
GalleryImage ==
    /\ pc = "gallery"
    /\ idx <= Len(GalleryImages)
    /\ LET img_filename == GalleryImages[idx] IN
         IF exists(img_filename)
         THEN /\ post_id_counter' = post_id_counter + 1
              /\ EmitAttachment(img_filename, post_id_counter + 1)
              /\ gallery_post_ids' = Append(gallery_post_ids, post_id_counter + 1)
         ELSE UNCHANGED << post_id_counter, xml_lines, channel, gallery_post_ids >>
    /\ idx' = idx + 1
    /\ UNCHANGED << inputs, route, parsing, formatting, delivered, pc, profile_picture_post_id >>

\* ProfilePicture, were the post id of the picture not recorded
ProfilePicture_IdNotRecorded ==
    /\ pc = "gallery"
    /\ idx > Len(GalleryImages)
    /\ IF IsRow(step4_data) /\ Truthy(step4_data.profile_picture)
          /\ exists(step4_data.profile_picture)
       THEN /\ post_id_counter' = post_id_counter + 1
            /\ EmitAttachment(step4_data.profile_picture, post_id_counter + 1)
       ELSE UNCHANGED << post_id_counter, xml_lines, channel >>
    /\ pc' = "home"
    /\ UNCHANGED << inputs, route, parsing, formatting, delivered, idx, gallery_post_ids, profile_picture_post_id >>

\* after the loop: the profile picture
ProfilePicture ==
    /\ pc = "gallery"
    /\ idx > Len(GalleryImages)
    /\ IF IsRow(step4_data) /\ Truthy(step4_data.profile_picture)
          /\ exists(step4_data.profile_picture)
       THEN /\ post_id_counter' = post_id_counter + 1
            /\ EmitAttachment(step4_data.profile_picture, post_id_counter + 1)
            /\ profile_picture_post_id' = post_id_counter + 1
       ELSE UNCHANGED << post_id_counter, xml_lines, channel, profile_picture_post_id >>
    /\ pc' = "home"
    /\ UNCHANGED << inputs, route, parsing, formatting, delivered, idx, gallery_post_ids >>

HomeTitle == << "H", "o", "m", "e" >>

PublicationsTitle == << "P", "u", "b", "l", "i", "c", "a", "t", "i", "o", "n", "s" >>

GalleryTitle == << "G", "a", "l", "l", "e", "r", "y" >>

\* HomePage, were the body built with the counter in place of the post id of
\* the profile picture
HomePage_RefersToCounter ==
    /\ pc = "home"
    /\ post_id_counter' = post_id_counter + 1
    /\ Emit(_create_page_xml(user, HomeTitle,
                _build_homepage_content(step1_data, step2_data, post_id_counter + 1),
                post_id_counter + 1),
            _create_page_item(user, HomeTitle,
                Gen_build_homepage_content(step1_data, step2_data, post_id_counter + 1),
                post_id_counter + 1))
    /\ pc' = "publications"
    /\ UNCHANGED << inputs, route, parsing, formatting, delivered, idx, gallery_post_ids, profile_picture_post_id >>

\* HomePage, were the counter not advanced for it
HomePage_NoIncrement ==
    /\ pc = "home"
    /\ Emit(_create_page_xml(user, HomeTitle,
                _build_homepage_content(step1_data, step2_data, profile_picture_post_id),
                post_id_counter),
            _create_page_item(user, HomeTitle,
                Gen_build_homepage_content(step1_data, step2_data, profile_picture_post_id),
                post_id_counter))
    /\ pc' = "publications"
    /\ UNCHANGED << inputs, route, parsing, formatting, delivered, idx, post_id_counter, gallery_post_ids, profile_picture_post_id >>

\* the Home page
HomePage ==
    /\ pc = "home"
    /\ post_id_counter' = post_id_counter + 1
    /\ Emit(_create_page_xml(user, HomeTitle,
                _build_homepage_content(step1_data, step2_data, profile_picture_post_id),
                post_id_counter + 1),
            _create_page_item(user, HomeTitle,
                Gen_build_homepage_content(step1_data, step2_data, profile_picture_post_id),
                post_id_counter + 1))
    /\ pc' = "publications"
    /\ UNCHANGED << inputs, route, parsing, formatting, delivered, idx, gallery_post_ids, profile_picture_post_id >>

\* bibtex_publications of _generate_wxr_content: an exception of the parser is
\* caught and leaves the empty list
bibtex_publications ==
    IF IsRow(step3_data) /\ ~ step3_data.bibtex_content.empty
       /\ ~ parse_bibtex(step3_data.bibtex_content).raised
    THEN parse_bibtex(step3_data.bibtex_content).value
    ELSE << >>

\* manual_publications_list of _generate_wxr_content
manual_publications_list ==
    IF IsRow(step3_data) THEN step3_data.manual_publications ELSE << >>

\* the Publications page of _generate_wxr_content
ContentPublicationsPage ==
    /\ builder = "content"
    /\ IF bibtex_publications # << >> \/ manual_publications_list # << >>
       THEN /\ post_id_counter' = post_id_counter + 1
            /\ xml_lines' = xml_lines \o _create_page_xml(user, PublicationsTitle,
                   _build_publications_html(bibtex_publications, manual_publications_list),
                   post_id_counter + 1)
       ELSE UNCHANGED << post_id_counter, xml_lines >>
    /\ pc' = "gallery_page"
    /\ UNCHANGED channel

\* the Publications page of generate_wxr_file: the parser is called without a
\* try, and the manual publications are not read
FilePublicationsPage ==
    /\ builder = "file"
    /\ IF IsRow(step3_data) /\ ~ step3_data.bibtex_content.empty
       THEN LET parsed == parse_bibtex(step3_data.bibtex_content) IN
            IF parsed.raised
            THEN /\ pc' = "raised"
                 /\ UNCHANGED << post_id_counter, channel >>
            ELSE /\ pc' = "gallery_page"
                 /\ IF parsed.value # << >>
                    THEN /\ post_id_counter' = post_id_counter + 1
                         /\ channel' = Append(channel,
                                _create_page_item(user, PublicationsTitle,
                                    Gen_build_publications_html(parsed.value),
                                    post_id_counter + 1))
                    ELSE UNCHANGED << post_id_counter, channel >>
       ELSE /\ pc' = "gallery_page"
            /\ UNCHANGED << post_id_counter, channel >>
    /\ UNCHANGED xml_lines

PublicationsPage ==
    /\ pc = "publications"
    /\ (ContentPublicationsPage \/ FilePublicationsPage)
    /\ UNCHANGED << inputs, route, parsing, formatting, delivered, idx, gallery_post_ids, profile_picture_post_id >>

\* the Gallery page
GalleryPage ==
    /\ pc = "gallery_page"
    /\ IF gallery_post_ids # << >>
       THEN /\ post_id_counter' = post_id_counter + 1
            /\ Emit(_create_page_xml(user, GalleryTitle,
                        _build_gallery_html(gallery_post_ids), post_id_counter + 1),
                    _create_page_item(user, GalleryTitle,
                        Gen_build_gallery_html(gallery_post_ids), post_id_counter + 1))
       ELSE UNCHANGED << post_id_counter, xml_lines, channel >>
    /\ pc' = "close"
    /\ UNCHANGED << inputs, route, parsing, formatting, delivered, idx, gallery_post_ids, profile_picture_post_id >>

\* the closing lines and the return
Close ==
    /\ pc = "close"
    /\ xml_lines' = IF builder = "content"
                    THEN xml_lines \o << << "  </channel>" >>, << "</rss>" >> >>
                    ELSE xml_lines
    /\ pc' = "done"
    /\ UNCHANGED << inputs, route, parsing, formatting, delivered, idx, post_id_counter, gallery_post_ids,
                    profile_picture_post_id, channel >>

Next ==
    \/ Start
    \/ GalleryImage
    \/ ProfilePicture
    \/ HomePage
    \/ PublicationsPage
    \/ GalleryPage
    \/ Close

Spec == Init /\ [][Next]_vars

-----------------------------------------------------------------------------
(* routes/export.py: the generate route around _generate_wxr_content.  A    *)
(* build is short against the one-second resolution of the timestamps, so  *)
(* the clock moves between requests only.                                   *)

\* the position of the route between two requests
Responded ==
    { "idle", "download_page", "redirect_preview", "redirect_wizard", "redirect_index",
      "send_file", "page", "not_found", "error_500" }

\* the positions inside _generate_wxr_content
Building == { "start", "gallery", "home", "publications", "gallery_page", "close" }

\* the rows of step 3 and step 4 the route is run with: none, or a full row
RouteStep3Rows ==
    { r \in Step3Rows :
        \/ r.is_none
        \/ /\ Len(r.manual_publications) = MaxManual
           /\ \/ r.bibtex_content.raises
              \/ /\ Len(r.bibtex_content.entries) = MaxBib
                 /\ \A n \in 1..MaxBib : "title" \in DOMAIN r.bibtex_content.entries[n] }

RouteStep4Rows ==
    { r \in Step4Rows :
        \/ r.is_none
        \/ r.profile_picture # None /\ Len(r.gallery_images) = MaxGallery }

RouteInit ==
    /\ builder = "content"
    /\ site \in Sites
    /\ \E p \in Persons :
          /\ user = p.user
          /\ step1_data = p.step1
          /\ step2_data = p.step2
    /\ step3_data \in RouteStep3Rows
    /\ step4_data \in RouteStep4Rows
    /\ disk \in SUBSET FilesOf(step4_data)
    /\ pc = "idle"
    /\ idx = 1
    /\ post_id_counter = 0
    /\ gallery_post_ids = << >>
    /\ profile_picture_post_id = 0
    /\ xml_lines = << >>
    /\ channel = << >>
    /\ now = 0
    /\ session = NoSession
    /\ flashes = << >>
    /\ bibtex_content = BibtexOf(<< >>, FALSE)
    /\ parse_result = NotCalled
    /\ format_arg = NoPublication
    /\ format_result = None
    /\ delivered = NoFile
    /\ writes = 0

\* FreshLocals, were the lists and counters of a build kept from one call to the next
FreshLocals_Kept ==
    UNCHANGED << idx, post_id_counter, gallery_post_ids, profile_picture_post_id,
                 xml_lines, channel >>

\* the locals of a call of _generate_wxr_content, before it or after it is left
FreshLocals ==
    /\ idx' = 1
    /\ post_id_counter' = 0
    /\ gallery_post_ids' = << >>
    /\ profile_picture_post_id' = 0
    /\ xml_lines' = << >>
    /\ channel' = << >>

\* the clock moves on between two requests
Tick ==
    /\ pc \in Responded
    /\ now < MaxTicks
    /\ now' = now + 1
    /\ UNCHANGED << builder, user, site, step1_data, step2_data, step3_data, step4_data,
                    disk, writes, pc, idx, post_id_counter, gallery_post_ids,
                    profile_picture_post_id, xml_lines, channel, route, parsing, formatting, delivered >>

\* the answer to a request for a site of another user
PermissionDenied(message) ==
    /\ pc' = "redirect_index"
    /\ flashes' = << [ category |-> "error", message |-> message ] >>

\* a request of generate: the site is the user's, steps 1 and 2 are there, the
\* build is called
Generate ==
    /\ pc \in Responded
    /\ site # NoRow
    /\ IF site.user_id # user.id
       THEN PermissionDenied("You do not have permission to access this site.")
       ELSE IF IsRow(step1_data) /\ IsRow(step2_data)
       THEN /\ pc' = "start"
            /\ flashes' = << >>
       ELSE /\ pc' = "redirect_wizard"
            /\ flashes' = << [ category |-> "warning",
                               message |-> "Please complete at least Steps 1 and 2 before generating." ] >>
    /\ FreshLocals
    /\ UNCHANGED << inputs, session, parsing, formatting, delivered >>

\* the return value of _generate_wxr_content
wxr_content == Join(xml_lines, << "\n" >>)

\* filename of generate
wxr_filename ==
    << "wordpress_export_" >> \o Str(site.id) \o << "_" >> \o strftime("%Y%m%d_%H%M%S")
    \o << ".wxr" >>

\* BuildRaises, were the lines written so far stored for download all the same
BuildRaises_PartialStored ==
    /\ pc \in Building
    /\ pc' = "redirect_preview"
    /\ flashes' = Append(flashes, [ category |-> "error",
                                    message |-> "Error generating WXR file: " ])
    /\ session' = [ wxr_data |-> wxr_content, wxr_filename |-> wxr_filename ]
    /\ FreshLocals
    /\ UNCHANGED << inputs, parsing, formatting, delivered >>

\* an exception inside _generate_wxr_content: the except clause of generate
\* flashes one error and redirects to the preview
BuildRaises ==
    /\ pc \in Building
    /\ pc' = "redirect_preview"
    /\ flashes' = Append(flashes, [ category |-> "error",
                                    message |-> "Error generating WXR file: " ])
    /\ FreshLocals
    /\ UNCHANGED << inputs, session, parsing, formatting, delivered >>

\* the build returned: the document and its filename are stored in the session
StoreInSession ==
    /\ pc = "done"
    /\ builder = "content"
    /\ session' = [ wxr_data |-> wxr_content, wxr_filename |-> wxr_filename ]
    /\ pc' = "render"
    /\ UNCHANGED << inputs, flashes, parsing, formatting, delivered, idx, post_id_counter, gallery_post_ids,
                    profile_picture_post_id, xml_lines, channel >>

\* the rest of the try block: the counts for the download page and the page
\* itself, or an exception on the way, which the same except clause reports
RenderDownloadPage ==
    /\ pc = "render"
    /\ \/ /\ pc' = "download_page"
          /\ UNCHANGED flashes
       \/ /\ pc' = "redirect_preview"
          /\ flashes' = Append(flashes, [ category |-> "error",
                                          message |-> "Error generating WXR file: " ])
    /\ FreshLocals
    /\ UNCHANGED << inputs, session, parsing, formatting, delivered >>

RouteNext ==
    \/ Generate
    \/ Start
    \/ GalleryImage
    \/ ProfilePicture
    \/ HomePage
    \/ PublicationsPage
    \/ GalleryPage
    \/ Close
    \/ BuildRaises
    \/ StoreInSession
    \/ RenderDownloadPage
    \/ Tick

SpecRoute == RouteInit /\ [][RouteNext]_vars

-----------------------------------------------------------------------------
(* utils.py: parse_bibtex called on a BibTeX text *)

ParseInit ==
    /\ bibtex_content \in { BibtexOf(entries, import_error) :
                               entries \in BibtexTexts, import_error \in BOOLEAN }
    /\ parse_result = NotCalled
    /\ format_arg = NoPublication
    /\ format_result = None
    /\ delivered = NoFile
    /\ writes = 0
    /\ pc = "call"
    /\ builder = "content"
    /\ site \in Sites
    /\ user = CHOOSE u \in Users : u.email = None
    /\ step1_data = CHOOSE r \in Step1Rows : r.title_role = None
    /\ step2_data = CHOOSE r \in Step2Rows : r.biography = None
    /\ step3_data = NoRow
    /\ step4_data = NoRow
    /\ disk = { }
    /\ idx = 1
    /\ post_id_counter = 0
    /\ gallery_post_ids = << >>
    /\ profile_picture_post_id = 0
    /\ xml_lines = << >>
    /\ channel = << >>
    /\ now = 0
    /\ session = NoSession
    /\ flashes = << >>

\* the call: the list returned, or the exception that leaves parse_bibtex
ParseBibtex ==
    /\ pc = "call"
    /\ parse_result' = parse_bibtex(bibtex_content)
    /\ pc' = IF parse_bibtex(bibtex_content).raised THEN "parse_raised" ELSE "parse_returned"
    /\ UNCHANGED << inputs, route, bibtex_content, formatting, delivered, idx, post_id_counter, gallery_post_ids,
                    profile_picture_post_id, xml_lines, channel >>

ParseNext == ParseBibtex

SpecParse == ParseInit /\ [][ParseNext]_vars

-----------------------------------------------------------------------------
(* Reading references and blocks back from a page body *)

RECURSIVE DigitRun(_, _)
\* the digits of text from position i on
DigitRun(text, i) ==
    IF i <= Len(text) /\ IsDigit(text[i]) THEN << text[i] >> \o DigitRun(text, i + 1)
    ELSE << >>

\* the numbers that follow each occurrence of token in text, in order
IdsAfter(text, token) ==
    LET at == InOrder({ i \in DOMAIN text : text[i] = token /\ DigitRun(text, i + 1) # << >> })
    IN  [ k \in DOMAIN at |-> ParseInt(DigitRun(text, at[k] + 1)) ]

RECURSIVE ListRun(_, _)
\* the digits and commas of text from position i on
ListRun(text, i) ==
    IF i <= Len(text) /\ (IsDigit(text[i]) \/ text[i] = ",")
    THEN << text[i] >> \o ListRun(text, i + 1)
    ELSE << >>

RECURSIVE SplitInts(_)
\* [int(x) for x in run.split(',')]
SplitInts(run) ==
    IF run = << >> THEN << >>
    ELSE LET d == DigitRun(run, 1) IN
         << IF d = << >> THEN -1 ELSE ParseInt(d) >>
         \o (IF Len(d) + 1 < Len(run) THEN SplitInts(SubSeq(run, Len(d) + 2, Len(run)))
             ELSE << >>)

ImageBlockOpen == "<!-- wp:image {\"id\":"

GalleryIdsOpen == "{\"ids\":["

GalleryImgOpen ==
    "<li class=\"blocks-gallery-item\"><figure><img src=\"https://example.com/uploads/image"

\* the ids of the wp:image blocks of a body
ImageBlockIds(body) == IdsAfter(body, ImageBlockOpen)

\* the id list of the wp:gallery block of a body
GalleryBlockIds(body) ==
    IF \E i \in DOMAIN body : body[i] = GalleryIdsOpen
    THEN LET i == CHOOSE i \in DOMAIN body : body[i] = GalleryIdsOpen
         IN  SplitInts(ListRun(body, i + 1))
    ELSE << >>

\* the ids of the image tags of the gallery grid of a body
GalleryImgIds(body) == IdsAfter(body, GalleryImgOpen)

\* the wp-image-<id> classes of the image tags of the gallery grid
GalleryImgClassIds(body) ==
    IdsAfter(body, IF builder = "content" THEN ".jpg\" alt=\"\" class=\"wp-image-"
                   ELSE "\" class=\"wp-image-")

\* the texts enclosed by each open and the next close, in order
Between(text, open, close) ==
    LET closes(i) == { j \in (i + 1)..Len(text) : text[j] = close }
        opens == InOrder({ i \in DOMAIN text : text[i] = open /\ closes(i) # { } })
    IN  [ k \in DOMAIN opens |->
            LET i == opens[k]
                j == CHOOSE j \in closes(i) : \A m \in closes(i) : j <= m
            IN  SubSeq(text, i + 1, j - 1) ]

\* the numbers that follow the occurrences of token in text, as a set
IdSetAfter(text, token) ==
    { ParseInt(DigitRun(text, i + 1)) :
        i \in { j \in DOMAIN text : text[j] = token /\ DigitRun(text, j + 1) # << >> } }

\* every attachment id a page body refers to
Refs(body) ==
    IdSetAfter(body, ImageBlockOpen) \cup Range(GalleryBlockIds(body))
    \cup IdSetAfter(body, GalleryImgOpen)
    \cup IdSetAfter(body, IF builder = "content" THEN ".jpg\" alt=\"\" class=\"wp-image-"
                          ELSE "\" class=\"wp-image-")

\* the title an item carries for a filename or a page title
TitleOf(text) == IF builder = "content" THEN _escape_xml(text) ELSE text

PagesTitled(it, title) ==
    { k \in DOMAIN it : it[k].kind = "page" /\ it[k].title = TitleOf(title) }

HasPage(it, title) == PagesTitled(it, title) # { }

PageBody(it, title) == it[CHOOSE k \in PagesTitled(it, title) : TRUE].content

Attachments(it) == { k \in DOMAIN it : it[k].kind = "attachment" }

\* the gallery list as stored, empty without a step-4 row
StoredGallery == IF step4_data.is_none THEN << >> ELSE step4_data.gallery_images

\* the gallery images that pass the existence check, in stored order
RECURSIVE Existing(_)
Existing(names) ==
    IF names = << >> THEN << >>
    ELSE (IF Head(names) \in disk THEN << Head(names) >> ELSE << >>) \o Existing(Tail(names))

HasProfile ==
    /\ ~ step4_data.is_none
    /\ step4_data.profile_picture # None
    /\ step4_data.profile_picture # << >>
    /\ step4_data.profile_picture \in disk

\* the filenames whose attachments a finished build holds, in order
ExpectedAttachments ==
    Existing(StoredGallery) \o (IF HasProfile THEN << step4_data.profile_picture >> ELSE << >>)

IsPrefix(a, b) == Len(a) <= Len(b) /\ SubSeq(b, 1, Len(a)) = a

Finished == pc = "done"

-----------------------------------------------------------------------------
(* C1: in every state of every build the post ids of the emitted items are   *)
(* strictly increasing in emission order and all greater than 1, and every   *)
(* attachment id a page body refers to (image block of Home, id list and     *)
(* image tags of Gallery) is the id of an attachment item emitted before     *)
(* that page, smaller than the id of the page.                               *)
C1_IdsIncreaseAndRefsPrecede ==
    LET it == Items IN
    /\ \A k \in DOMAIN it : it[k].post_id > 1
    /\ \A k \in 1..(Len(it) - 1) : it[k].post_id < it[k + 1].post_id
    /\ \A k \in DOMAIN it :
          it[k].kind = "page" =>
             \A r \in Refs(it[k].content) :
                /\ r < it[k].post_id
                /\ \E j \in 1..(k - 1) : it[j].kind = "attachment" /\ it[j].post_id = r

\* a finished build whose Home refers to the profile picture and whose
\* Gallery refers to two images
C1_Witness ==
    LET it == Items IN
    /\ Finished
    /\ HasPage(it, HomeTitle) /\ Len(ImageBlockIds(PageBody(it, HomeTitle))) = 1
    /\ HasPage(it, GalleryTitle) /\ Len(GalleryBlockIds(PageBody(it, GalleryTitle))) = 2

(* C2: the counter is 1 when the first item is about to be emitted and is    *)
(* 1 plus the number of emitted items ever after; the k-th emitted item has  *)
(* id k + 1, so the ids are consecutive, without gap or reuse.               *)
C2_CounterCountsItems ==
    LET it == Items IN
    pc # "start" =>
       /\ post_id_counter = 1 + Len(it)
       /\ \A k \in DOMAIN it : it[k].post_id = k + 1

\* a finished build with attachments and pages in which one image was skipped
C2_Witness ==
    /\ Finished
    /\ post_id_counter >= 5
    /\ Len(Items) >= 4
    /\ Len(gallery_post_ids) < Len(StoredGallery)

(* C3: the emitted items are, in order, the attachments of the existing      *)
(* gallery images in stored order, the attachment of the profile picture,    *)
(* then the pages Home, Publications, Gallery (the last two optional); no    *)
(* attachment follows a page.                                                *)
C3_FixedOrder ==
    LET it == Items
        atts == [ k \in 1..Cardinality(Attachments(it)) |-> it[k] ]
        pages == [ k \in 1..(Len(it) - Len(atts)) |-> it[Len(atts) + k].title ]
        home == TitleOf(HomeTitle)
        publications == TitleOf(PublicationsTitle)
        gallery == TitleOf(GalleryTitle)
    IN
    /\ \A k \in DOMAIN atts : atts[k].kind = "attachment"
    /\ IsPrefix([ k \in DOMAIN atts |-> atts[k].title ],
                [ k \in DOMAIN ExpectedAttachments |-> TitleOf(ExpectedAttachments[k]) ])
    /\ \/ pages = << >>
       \/ pages = << home >>
       \/ pages = << home, publications >>
       \/ pages = << home, gallery >>
       \/ pages = << home, publications, gallery >>
    /\ pages # << >> => Len(atts) = Len(ExpectedAttachments)
    /\ Finished => pages # << >>

\* a finished build with all five parts
C3_Witness ==
    LET it == Items IN
    /\ Finished
    /\ Len(gallery_post_ids) = 2
    /\ profile_picture_post_id # 0
    /\ HasPage(it, PublicationsTitle)
    /\ HasPage(it, GalleryTitle)

(* C4: an image whose existence check fails gives no attachment item and     *)
(* takes no post id, and the build does not fail on it: during the loop the  *)
(* counter has advanced once per existing image seen; a finished build holds *)
(* one attachment per existing image and the Gallery page exactly when some  *)
(* gallery image exists.                                                     *)
C4_MissingImagesSkipped ==
    LET it == Items
        seen == { i \in 1..(idx - 1) : StoredGallery[i] \in disk }
    IN
    /\ pc = "gallery" =>
          /\ post_id_counter = 1 + Cardinality(seen)
          /\ Len(it) = Cardinality(seen)
          /\ Len(gallery_post_ids) = Cardinality(seen)
    /\ Finished =>
          /\ Cardinality(Attachments(it)) =
                Cardinality({ i \in DOMAIN StoredGallery : StoredGallery[i] \in disk })
                + (IF HasProfile THEN 1 ELSE 0)
          /\ HasPage(it, GalleryTitle)
                <=> (\E i \in DOMAIN StoredGallery : StoredGallery[i] \in disk)
    /\ pc = "raised" => ~ step3_data.is_none /\ step3_data.bibtex_content.raises

\* the scenario: one gallery image that is not on disk, no profile picture
C4_Witness ==
    LET it == Items IN
    /\ Finished
    /\ Len(StoredGallery) = 1
    /\ StoredGallery[1] \notin disk
    /\ step4_data.profile_picture = None
    /\ Attachments(it) = { }
    /\ ~ HasPage(it, GalleryTitle)

NoPublications ==
    step3_data.is_none
    \/ (step3_data.bibtex_content.empty /\ step3_data.manual_publications = << >>)

NoImages ==
    step4_data.is_none
    \/ (step4_data.profile_picture = None /\ step4_data.gallery_images = << >>)

(* C5: a build with no publications and no images yields exactly one item,   *)
(* the page titled Home, with post id 2.                                     *)
C5_HomeOnly ==
    (Finished /\ NoPublications /\ NoImages) =>
       LET it == Items IN
       /\ Len(it) = 1
       /\ it[1].kind = "page"
       /\ it[1].title = TitleOf(HomeTitle)
       /\ it[1].post_id = 2

\* the scenario: steps 1 and 2 only
C5_Witness == Finished /\ step3_data.is_none /\ step4_data.is_none /\ Len(Items) = 1

(* C6: once the Home step has run there is exactly one Home page item; its   *)
(* body has an image block exactly when a profile picture is set and exists, *)
(* and the id in that block is the post id of the attachment item of the     *)
(* profile picture.                                                          *)
C6_OneHomeWithProfileImage ==
    pc \in { "publications", "gallery_page", "close", "done", "raised" } =>
       LET it == Items
           ids == ImageBlockIds(PageBody(it, HomeTitle))
       IN
       /\ Cardinality(PagesTitled(it, HomeTitle)) = 1
       /\ (ids # << >>) <=> HasProfile
       /\ HasProfile =>
             /\ Len(ids) = 1
             /\ \E k \in Attachments(it) :
                   /\ it[k].title = TitleOf(step4_data.profile_picture)
                   /\ it[k].post_id = ids[1]

\* a finished build with gallery images before the profile picture
C6_Witness ==
    /\ Finished
    /\ HasProfile
    /\ gallery_post_ids # << >>
    /\ ImageBlockIds(PageBody(Items, HomeTitle)) = << profile_picture_post_id >>

\* the records parsed from the BibTeX text (none when the parser fails)
ParsedRecords ==
    IF step3_data.is_none \/ step3_data.bibtex_content.empty
       \/ step3_data.bibtex_content.raises
    THEN << >>
    ELSE TitledOnly(step3_data.bibtex_content.entries)

ManualRecords == IF step3_data.is_none THEN << >> ELSE step3_data.manual_publications

(* C7: a finished build holds a Publications page if and only if there is at *)
(* least one publication, parsed from the BibTeX text or entered manually.   *)
C7_PublicationsPageIffAny ==
    Finished =>
       (HasPage(Items, PublicationsTitle)
           <=> (ParsedRecords # << >> \/ ManualRecords # << >>))

\* the citations of all publications, parsed records first, then manual ones
ExpectedCitations ==
    [ i \in 1..(Len(ParsedRecords) + Len(ManualRecords)) |->
        IF i <= Len(ParsedRecords)
        THEN format_publication_html(ParsedRecords[i])
        ELSE format_publication_html(to_dict(ManualRecords[i - Len(ParsedRecords)])) ]

(* C8: the Publications page written by _generate_wxr_content holds one      *)
(* paragraph block per publication and no other block: the citations of the  *)
(* parsed BibTeX records in parse order, then those of the manual records in *)
(* stored order, none merged or dropped.                                     *)
C8_OneBlockPerPublication ==
    (builder = "content" /\ pc \in { "gallery_page", "close", "done" }) =>
       LET it == Items IN
       HasPage(it, PublicationsTitle) =>
          LET body == PageBody(it, PublicationsTitle) IN
          /\ Between(body, "<p class=\"wp-block-paragraph\">", "</p>") = ExpectedCitations
          /\ Cardinality({ i \in DOMAIN body : body[i] = "<!-- wp:paragraph -->" })
                = Len(ParsedRecords) + Len(ManualRecords)

\* two parsed records with one key and two manual records, one of which
\* repeats a parsed record
C8_Witness ==
    /\ builder = "content"
    /\ Finished
    /\ Len(ParsedRecords) = 2
    /\ ParsedRecords[1].key = ParsedRecords[2].key
    /\ Len(ManualRecords) = 2
    /\ HasPage(Items, PublicationsTitle)
    /\ \E i \in 1..2 : ExpectedCitations[i] = ExpectedCitations[3]

\* the post ids of the attachment items of the gallery images, in order
GalleryAttachmentIds(it) ==
    LET n == Len(Existing(StoredGallery)) IN
    [ k \in 1..(IF n <= Len(it) THEN n ELSE Len(it)) |-> it[k].post_id ]

(* C9: the id list of the gallery block of the Gallery page is the sequence  *)
(* of post ids of the emitted gallery attachments, in order; the grid has    *)
(* one image tag per such id in the same order; the id of the profile        *)
(* picture attachment does not occur in the page.                            *)
C9_GalleryRefersToGalleryAttachments ==
    pc \in { "close", "done" } =>
       LET it == Items IN
       HasPage(it, GalleryTitle) =>
          LET body == PageBody(it, GalleryTitle)
              ids == GalleryAttachmentIds(it)
          IN
          /\ GalleryBlockIds(body) = ids
          /\ GalleryImgIds(body) = ids
          /\ GalleryImgClassIds(body) = ids
          /\ Cardinality({ i \in DOMAIN body : body[i] = GalleryImgOpen }) = Len(ids)
          /\ profile_picture_post_id \notin Refs(body)

\* a Gallery page beside a profile picture, one gallery image skipped
C9_Witness ==
    LET it == Items IN
    /\ Finished
    /\ HasProfile
    /\ HasPage(it, GalleryTitle)
    /\ Len(GalleryAttachmentIds(it)) >= 1
    /\ Len(StoredGallery) > Len(GalleryAttachmentIds(it))

\* position i of line starts a CDATA terminator: the characters ]]>
EndsCData(line, i) ==
    \/ line[i] = "]]></content:encoded>"
    \/ /\ i + 2 <= Len(line)
       /\ line[i] = "]" /\ line[i + 1] = "]" /\ line[i + 2] = ">"

(* C10: in every content:encoded line of the output the CDATA section opened *)
(* by the builder is closed by the builder's own terminator and by nothing   *)
(* before it, whatever text the inputs hold.                                 *)
C10_CDataNotClosedEarly ==
    \A n \in DOMAIN xml_lines :
       LET line == xml_lines[n] IN
       line[1] = "      <content:encoded><![CDATA[" =>
          \A i \in 2..(Len(line) - 1) : ~ EndsCData(line, i)

-----------------------------------------------------------------------------
(* Reading element text back as an XML parser does *)

\* the five predefined entities and the characters they stand for
Entities ==
    { [ name |-> << "&", "a", "m", "p", ";" >>, char |-> "&" ],
      [ name |-> << "&", "l", "t", ";" >>, char |-> "<" ],
      [ name |-> << "&", "g", "t", ";" >>, char |-> ">" ],
      [ name |-> << "&", "q", "u", "o", "t", ";" >>, char |-> "\"" ],
      [ name |-> << "&", "a", "p", "o", "s", ";" >>, char |-> "'" ] }

\* an entity starts at position i of text
EntityAt(text, i) ==
    \E e \in Entities : IsPrefix(e.name, SubSeq(text, i, Len(text)))

RECURSIVE Unescape(_)
\* the character data a parser reads from text: each entity decoded, once
Unescape(text) ==
    IF text = << >> THEN << >>
    ELSE IF EntityAt(text, 1)
    THEN LET e == CHOOSE e \in Entities : IsPrefix(e.name, text)
         IN  << e.char >> \o Unescape(SubSeq(text, Len(e.name) + 1, Len(text)))
    ELSE << Head(text) >> \o Unescape(Tail(text))

\* text holds no markup character of its own: no < or >, and no & that does
\* not start an entity
NoRawMarkup(text) ==
    \A i \in DOMAIN text :
        /\ text[i] \notin { "<", ">" }
        /\ text[i] = "&" => EntityAt(text, i)

\* out is the input text escaped exactly once
EscapedOnce(out, text) == NoRawMarkup(out) /\ Unescape(out) = text

\* the lines of the document before its first item
LinesBeforeItems ==
    LET items == { n \in DOMAIN xml_lines : xml_lines[n] = << "    <item>" >> }
    IN  IF items = { } THEN xml_lines ELSE SubSeq(xml_lines, 1, Min(items) - 1)

\* the text between open and close of the header line that starts with open
HeaderText(open, close) == Inner(LinesBeforeItems, open, close)

(* C11: in the document of _generate_wxr_content every input text put into   *)
(* an element text node (site name in title and wp:blog_name, display name   *)
(* in description, login, email, first and last name of the author, login in *)
(* dc:creator, filename and page title in the item titles) holds no raw <,   *)
(* > or &, and decoding its entities once gives back the input text, also    *)
(* for an input that holds an entity already.                                *)
C11_TextNodesEscapedOnce ==
    (builder = "content" /\ pc \in (Building \ { "start" }) \cup { "done" }) =>
       LET it == Items
           filenames == ExpectedAttachments
           header == LinesBeforeItems
           text(open, close) == Inner(header, open, close)
       IN
       /\ EscapedOnce(text("    <title>", "</title>"), site.site_name)
       /\ EscapedOnce(text("    <wp:blog_name>", "</wp:blog_name>"), site.site_name)
       /\ EscapedOnce(text("    <description>WordPress site for ", "</description>"),
                      full_name(user))
       /\ EscapedOnce(text("      <wp:author_login>", "</wp:author_login>"),
                      user.username)
       /\ EscapedOnce(text("      <wp:author_email>", "</wp:author_email>"),
                      IF Truthy(user.email) THEN user.email ELSE user.username)
       /\ EscapedOnce(text("      <wp:author_first_name>", "</wp:author_first_name>"),
                      IF Truthy(user.first_name) THEN user.first_name ELSE << >>)
       /\ EscapedOnce(text("      <wp:author_last_name>", "</wp:author_last_name>"),
                      IF Truthy(user.last_name) THEN user.last_name ELSE << >>)
       /\ \A n \in DOMAIN xml_lines :
             xml_lines[n][1] = "      <dc:creator>" =>
                EscapedOnce(SubSeq(xml_lines[n], 2, Len(xml_lines[n]) - 1), user.username)
       /\ \A k \in DOMAIN it :
             LET item == it[k] IN
             IF item.kind = "attachment"
             THEN EscapedOnce(item.title, filenames[k])
             ELSE /\ NoRawMarkup(item.title)
                  /\ Unescape(item.title) \in { HomeTitle, PublicationsTitle, GalleryTitle }

\* a finished document for a site name with an entity in it and a last name
\* with a markup character, with an attachment and its filename
C11_Witness ==
    /\ builder = "content"
    /\ Finished
    /\ site.site_name = << "S", "&", "a", "m", "p", ";" >>
    /\ HeaderText("    <title>", "</title>")
          = << "S", "&", "a", "m", "p", ";", "a", "m", "p", ";" >>
    /\ user.last_name = << "<" >>
    /\ Attachments(Items) # { }

-----------------------------------------------------------------------------
(* The channel header *)

\* the positions of the children of the channel with the given tag
ChildrenTagged(tag) == { n \in DOMAIN channel : channel[n].tag = tag }

\* the text of the one child of the channel with the given tag
ChannelText(tag) == channel[CHOOSE n \in ChildrenTagged(tag) : TRUE].text

\* the email the author block is to carry
ExpectedAuthorEmail ==
    IF user.email # None /\ user.email # << >> THEN user.email ELSE user.username

\* C12: once the header is written, the document has exactly one channel and
\* exactly one wp:author block, both before every item, wxr_version 1.2 and
\* language en-us, title and wp:blog_name equal to the site name, and the
\* author email is the user's email when it is present and the username when
\* it is absent or empty.
C12_OneChannelOneAuthor ==
    pc # "start" =>
      IF builder = "content"
      THEN LET header == LinesBeforeItems
               text(open, close) == Inner(header, open, close)
               marks == { n \in DOMAIN xml_lines : Len(xml_lines[n]) = 1 }
               at(line) == { n \in marks : xml_lines[n] = line }
           IN
           /\ Cardinality(at(<< "  <channel>" >>)) = 1
           /\ Cardinality(at(<< "    <wp:author>" >>)) = 1
           /\ Cardinality(at(<< "    </wp:author>" >>)) = 1
           /\ \A i \in at(<< "    <item>" >>) :
                /\ \A c \in at(<< "  <channel>" >>) : c < i
                /\ \A a \in at(<< "    </wp:author>" >>) : a < i
           /\ pc = "done" => Cardinality(at(<< "  </channel>" >>)) = 1
           /\ Cardinality(at(<< "    <wp:wxr_version>1.2</wp:wxr_version>" >>)) = 1
           /\ Cardinality(at(<< "    <language>en-us</language>" >>)) = 1
           /\ Unescape(text("    <title>", "</title>")) = site.site_name
           /\ Unescape(text("    <wp:blog_name>", "</wp:blog_name>")) = site.site_name
           /\ Unescape(text("      <wp:author_email>", "</wp:author_email>"))
                = ExpectedAuthorEmail
      ELSE /\ Cardinality(ChildrenTagged("wp:author")) = 1
           /\ \A i \in ChildrenTagged("item") :
                \A a \in ChildrenTagged("wp:author") : a < i
           /\ \A tag \in { "wp:wxr_version", "language", "title", "wp:blog_name" } :
                Cardinality(ChildrenTagged(tag)) = 1
           /\ ChannelText("wp:wxr_version") = << "1.2" >>
           /\ ChannelText("language") = << "en-us" >>
           /\ ChannelText("title") = site.site_name
           /\ ChannelText("wp:blog_name") = site.site_name
           /\ LET author == channel[CHOOSE n \in ChildrenTagged("wp:author") : TRUE]
              IN  /\ Cardinality({ n \in DOMAIN author.children :
                                     author.children[n].tag = "wp:author_email" }) = 1
                  /\ ChildText(author, "wp:author_email") = ExpectedAuthorEmail

\* a finished document with items whose user has an empty email
C12_Witness ==
    /\ Finished
    /\ user.email = << >>
    /\ Len(Items) >= 2

-----------------------------------------------------------------------------
(* Two builds of one site *)

\* C13: a build that ends with the inputs, the existence results and the
\* clock reading of the build whose document the session holds has produced
\* that very document, character for character: nothing of the earlier build
\* is carried into the later one.
C13_SameInputsSameOutput ==
    (/\ pc = "done"
     /\ session.wxr_data # None
     /\ session.wxr_filename = wxr_filename)
    => wxr_content = session.wxr_data

\* a second build, with gallery attachments and a Gallery page, that ended at
\* the clock reading of the first
C13_Witness ==
    /\ pc = "done"
    /\ session.wxr_data # None
    /\ session.wxr_filename = wxr_filename
    /\ gallery_post_ids # << >>
    /\ HasPage(Items, GalleryTitle)
    /\ wxr_content = session.wxr_data

-----------------------------------------------------------------------------
(* A build that raises *)

\* a document from its first line to its last
Complete(text) ==
    /\ text # << >>
    /\ text[1] = "<?xml version=\"1.0\" encoding=\"UTF-8\"?>"
    /\ text[Len(text)] = "</rss>"
    /\ Cardinality({ n \in DOMAIN text : text[n] = "  </channel>" }) = 1

\* the step in which an exception leaves _generate_wxr_content
BuildRaised == pc \in Building /\ pc' = "redirect_preview"

\* C14: the step in which the build raises leaves the session's wxr_data and
\* wxr_filename as they were and flashes exactly one message, an error; no
\* step inside the build touches the session; and whatever the session holds
\* for download is a complete document.
C14_RaiseStoresNothing ==
    /\ [][ /\ BuildRaised =>
                /\ session' = session
                /\ Len(flashes') = 1
                /\ flashes'[1].category = "error"
           /\ pc \in Building => session' = session ]_vars
    /\ [](session.wxr_data # None => Complete(session.wxr_data))

\* the build of the first request raised: one error, nothing stored
C14_Witness ==
    /\ pc = "redirect_preview"
    /\ session = NoSession
    /\ Len(flashes) = 1
    /\ flashes[1].category = "error"

-----------------------------------------------------------------------------
(* A BibTeX text the parser fails on *)

\* the build has a BibTeX text and parse_bibtex raises on it
ParseFails ==
    /\ IsRow(step3_data)
    /\ ~ step3_data.bibtex_content.empty
    /\ parse_bibtex(step3_data.bibtex_content).raised

\* C15: a build whose BibTeX text makes the parser raise is not aborted: it
\* never ends in the exception, and once finished its document holds the Home
\* page and, when manual publications exist, the Publications page.
C15_ParseFailureNeverAborts ==
    ParseFails =>
        /\ pc # "raised"
        /\ Finished =>
             /\ HasPage(Items, HomeTitle)
             /\ ManualRecords # << >> => HasPage(Items, PublicationsTitle)

-----------------------------------------------------------------------------
(* parse_bibtex against the entries of the text it is called with *)

\* parse_bibtex has returned a list
Returned == pc = "parse_returned"

\* the entries the text was written from, in source order
SourceEntries == bibtex_content.source

\* the title an entry of the text is written with, empty if it has none
EntryTitle(e) ==
    IF \E m \in DOMAIN e.fields : e.fields[m].name = "title"
    THEN e.fields[CHOOSE m \in DOMAIN e.fields : e.fields[m].name = "title"].value
    ELSE << >>

\* the positions in the text of the entries with a non-empty title
TitledEntries == InOrder({ n \in DOMAIN SourceEntries : EntryTitle(SourceEntries[n]) # << >> })

\* the titles of the records returned, in their order
ReturnedTitles == [ r \in DOMAIN parse_result.value |-> parse_result.value[r].title ]

\* C16: parse_bibtex never raises to its caller: every call returns a list,
\* the empty list for an empty text.
C16_ParseNeverRaises ==
    /\ pc # "parse_raised"
    /\ (Returned /\ bibtex_content.text = << >>) => parse_result.value = << >>

\* C17: for a text with an entry that has no title or an empty one, every
\* record returned has a non-empty title, no record carries the key of such
\* an entry, and the records are those of the titled entries, none dropped,
\* in source order.
C17_UntitledDroppedOthersKept ==
    (/\ Returned
     /\ \E n \in DOMAIN SourceEntries : EntryTitle(SourceEntries[n]) = << >>)
    => /\ \A r \in DOMAIN parse_result.value : parse_result.value[r].title # << >>
       /\ \A r \in DOMAIN parse_result.value : \A n \in DOMAIN SourceEntries :
             EntryTitle(SourceEntries[n]) = << >>
                => parse_result.value[r].key # SourceEntries[n].key
       /\ ReturnedTitles
            = [ k \in DOMAIN TitledEntries |-> EntryTitle(SourceEntries[TitledEntries[k]]) ]

\* the record of @article{doe2023, title={A Study}, author={Doe, J.}, year={2023}}
DoeRecord ==
    [ k \in DOMAIN KeyChars |->
        IF k = "key" THEN DoeEntry(TRUE).key
        ELSE IF k = "type" THEN DoeEntry(TRUE).type
        ELSE IF k \in { "title", "author", "year" }
        THEN DoeEntry(TRUE).fields[CHOOSE m \in 1..3 : DoeEntry(TRUE).fields[m].name = k].value
        ELSE << >> ]

\* C18: the single-line entry doe2023 parses to exactly one record, with key
\* doe2023, type article, title A Study, author Doe, J. and year 2023, whether
\* bibtexparser or the regex fallback reads it.
C18_SingleLineEntryParses ==
    (Returned /\ SourceEntries = << DoeEntry(TRUE) >>)
    => parse_result.value = << DoeRecord >>

\* C19: a text of two titled entries that share one citation key yields two
\* records, in source order.
C19_SourceOrderNoDeduplication ==
    (/\ Returned
     /\ Len(SourceEntries) = 2
     /\ \A n \in 1..2 : EntryTitle(SourceEntries[n]) # << >>
     /\ SourceEntries[1].key = SourceEntries[2].key)
    => /\ Len(parse_result.value) = 2
       /\ ReturnedTitles = [ n \in 1..2 |-> EntryTitle(SourceEntries[n]) ]

\* C20: the key and the type of every record returned are the key of the
\* header of an entry of the text and its lower-cased entry type, whatever
\* fields the body of the entry holds.
C20_KeyAndTypeFromHeader ==
    Returned =>
      \A r \in DOMAIN parse_result.value :
        \E n \in DOMAIN SourceEntries :
           /\ parse_result.value[r].key = SourceEntries[n].key
           /\ parse_result.value[r].type = Lower(SourceEntries[n].type)

-----------------------------------------------------------------------------
(* The shape of the records of both parsing strategies *)

\* the names of the fields an entry of the text is written with
FieldNames(e) == { e.fields[m].name : m \in DOMAIN e.fields }

\* a Python str, as the model writes one: a sequence, and not None
IsStr(v) == v # None /\ DOMAIN v = 1..Len(v)

\* C21: every record returned, by bibtexparser or by the regex fallback, has
\* exactly the twelve fields key, type, title, author, year, journal,
\* booktitle, publisher, volume, pages, doi and url, each a string, and is the
\* record of an entry of the text: a field that entry does not set is empty.
C21_SameShapeBothStrategies ==
    Returned =>
      \A r \in DOMAIN parse_result.value :
        LET record == parse_result.value[r] IN
        /\ DOMAIN record = DOMAIN KeyChars
        /\ \A k \in DOMAIN record : IsStr(record[k])
        /\ \E n \in DOMAIN SourceEntries :
              \A k \in DOMAIN record \ { "key", "type" } :
                 k \notin FieldNames(SourceEntries[n]) => record[k] = << >>

-----------------------------------------------------------------------------
(* Field values of the regex fallback *)

\* the text was read by _parse_bibtex_regex and each of its entries closes on
\* a line of its own, so that the fallback matches every entry
FallbackRead ==
    /\ Returned
    /\ bibtex_content.import_error
    /\ \A n \in DOMAIN SourceEntries : ~ SourceEntries[n].inline

\* C22: in the regex fallback the value stored for a recognized field is the
\* value the entry was written with, whether in braces, in double quotes or
\* bare: without the delimiters and without the blanks around it.
C22_DelimitersRemovedAndTrimmed ==
    FallbackRead =>
      /\ Len(parse_result.value) = Len(TitledEntries)
      /\ \A k \in DOMAIN TitledEntries :
           LET e == SourceEntries[TitledEntries[k]] IN
           \A m \in DOMAIN e.fields :
              e.fields[m].name \in DOMAIN KeyChars \ { "key", "type" }
                 => parse_result.value[k][e.fields[m].name] = e.fields[m].value

-----------------------------------------------------------------------------
(* utils.py: format_publication_html called on a publication record *)

\* the keys format_publication_html reads with publication.get
FormatKeys ==
    { "author", "title", "journal", "booktitle", "publisher", "year", "doi", "url" }

\* one value for each key, so that a value found in the citation names its field
FormatValue ==
    [ author    |-> << "A" >>,
      title     |-> << "T" >>,
      journal   |-> << "J" >>,
      booktitle |-> << "B" >>,
      publisher |-> << "P" >>,
      year      |-> << "2" >>,
      doi       |-> << "d" >>,
      url       |-> << "u" >> ]

\* the records format_publication_html is called on: every key set, None or
\* empty; and the same records with only author and title as keys
Publications ==
    LET Values(k) == { None, << >>, FormatValue[k] }
        full == [ author : Values("author"), title : Values("title"),
                  journal : Values("journal"), booktitle : Values("booktitle"),
                  publisher : Values("publisher"), year : Values("year"),
                  doi : Values("doi"), url : Values("url") ]
    IN  full \cup { [ k \in { "author", "title" } |-> p[k] ] : p \in full }

FormatInit ==
    /\ format_arg \in Publications
    /\ format_result = None
    /\ pc = "call"
    /\ bibtex_content = BibtexOf(<< >>, FALSE)
    /\ parse_result = NotCalled
    /\ delivered = NoFile
    /\ writes = 0
    /\ builder = "content"
    /\ site \in Sites
    /\ user = CHOOSE u \in Users : u.email = None
    /\ step1_data = CHOOSE r \in Step1Rows : r.title_role = None
    /\ step2_data = CHOOSE r \in Step2Rows : r.biography = None
    /\ step3_data = NoRow
    /\ step4_data = NoRow
    /\ disk = { }
    /\ idx = 1
    /\ post_id_counter = 0
    /\ gallery_post_ids = << >>
    /\ profile_picture_post_id = 0
    /\ xml_lines = << >>
    /\ channel = << >>
    /\ now = 0
    /\ session = NoSession
    /\ flashes = << >>

\* the call: the citation returned
FormatPublication ==
    /\ pc = "call"
    /\ format_result' = format_publication_html(format_arg)
    /\ pc' = "format_returned"
    /\ UNCHANGED << inputs, route, parsing, format_arg, delivered, idx, post_id_counter,
                    gallery_post_ids, profile_picture_post_id, xml_lines, channel >>

FormatNext == FormatPublication

SpecFormat == FormatInit /\ [][FormatNext]_vars

-----------------------------------------------------------------------------
(* Reading a citation back *)

Formatted == pc = "format_returned"

\* the field is set to a non-empty value
Present(k) == k \in DOMAIN format_arg /\ format_arg[k] \notin { None, << >> }

\* the positions of the citation that hold the value of a field
ValuePositions ==
    { i \in DOMAIN format_result : \E k \in FormatKeys : << format_result[i] >> = FormatValue[k] }

\* the fields whose values the citation shows, in the order it shows them
ShownFields ==
    [ n \in 1..Cardinality(ValuePositions) |->
        CHOOSE k \in FormatKeys : << format_result[InOrder(ValuePositions)[n]] >> = FormatValue[k] ]

Keep(k) == k # "" /\ Present(k)

\* the fields a citation is to show, in the order of the parts
PartsInOrder ==
    SelectSeq(<< "author", "title",
                 IF Present("journal") THEN "journal" ELSE "booktitle",
                 "publisher", "year",
                 IF Present("doi") THEN "doi" ELSE "url" >>, Keep)

\* the tokens a part is made of, its value included
PartTokens(k) == IF k \in { "author", "publisher" } THEN 2 ELSE 3

RECURSIVE PartsLength(_)
\* the tokens of a citation made of the parts of these fields
PartsLength(s) == IF s = << >> THEN 0 ELSE PartTokens(Head(s)) + PartsLength(Tail(s))

\* the token before and the token after the value of a shown field,
\* the empty string where the citation begins or ends there
Around(k) ==
    LET i == CHOOSE j \in DOMAIN format_result : << format_result[j] >> = FormatValue[k]
    IN  << IF i > 1 THEN format_result[i - 1] ELSE "",
           IF i < Len(format_result) THEN format_result[i + 1] ELSE "" >>

\* C23: the citation shows exactly the present parts, in the order author,
\* title, journal-or-booktitle, publisher, year, link; a missing or empty field
\* adds no token; booktitle is shown, as In <em>...</em>, only without a journal
C23_PresentPartsInFixedOrder ==
    Formatted =>
      /\ ShownFields = PartsInOrder
      /\ Len(format_result) = PartsLength(PartsInOrder)
      /\ \A n \in DOMAIN ShownFields :
            LET k == ShownFields[n] IN
            CASE k = "author"    -> Around(k)[2] = "."
              [] k = "title"     -> Around(k) = << " \"", ".\"" >>
              [] k = "journal"   -> Around(k) = << " <em>", "</em>" >>
              [] k = "booktitle" -> Around(k) = << " In <em>", "</em>" >> /\ ~ Present("journal")
              [] k = "publisher" -> Around(k)[1] = " "
              [] k = "year"      -> Around(k) = << " (", ")" >>
              [] OTHER           -> TRUE

C23_Witness ==
    /\ Formatted
    /\ Present("journal") /\ Present("booktitle")
    /\ Present("author") /\ ~ Present("title") /\ Present("year")
    /\ format_arg["publisher"] = << >>
    /\ ShownFields = << "author", "journal", "year" >>

\* the characters of a token of a citation
Spell(token) ==
    CASE token = " \"" -> << " ", "\"" >>
      [] token = ".\"" -> << ".", "\"" >>
      [] OTHER         -> << token >>

\* the characters of a citation, one by one
Chars(text) == Concat([ i \in DOMAIN text |-> Spell(text[i]) ])

\* a record in which author and title are set and nothing else is
OnlyAuthorAndTitle ==
    /\ Formatted
    /\ \A k \in FormatKeys : Present(k) <=> k \in { "author", "title" }

Links ==
    { i \in DOMAIN format_result :
         format_result[i] \in { " <a href='https://doi.org/", " <a href='" } }

\* the link that opens at position i: the token that opens it, its address and
\* the token that closes it
LinkAt(i) ==
    IF i + 2 <= Len(format_result)
    THEN << format_result[i], << format_result[i + 1] >>, format_result[i + 2] >>
    ELSE << format_result[i] >>

\* C25: with a doi the citation has exactly one link, the DOI link to
\* https://doi.org/{doi}, whether or not a url is set; with a url and no doi it
\* has exactly one link, to that url; with neither it has no link
C25_DoiBeforeUrl ==
    Formatted =>
      /\ Present("doi") =>
            /\ Cardinality(Links) = 1
            /\ \A i \in Links :
                  LinkAt(i) = << " <a href='https://doi.org/", format_arg.doi,
                                 "' target='_blank'>DOI</a>" >>
      /\ ~ Present("doi") /\ Present("url") =>
            /\ Cardinality(Links) = 1
            /\ \A i \in Links :
                  LinkAt(i) = << " <a href='", format_arg.url, "' target='_blank'>Link</a>" >>
      /\ ~ Present("doi") /\ ~ Present("url") =>
            /\ Links = { }
            /\ \A i \in DOMAIN format_result :
                  format_result[i] \notin { "' target='_blank'>DOI</a>",
                                            "' target='_blank'>Link</a>" }

C25_Witness ==
    /\ Formatted
    /\ Present("doi") /\ Present("url")
    /\ Cardinality(Links) = 1
    /\ FormatValue["url"][1] \notin Range(format_result)

-----------------------------------------------------------------------------
(* routes/export.py: generate and download, by one user who owns two sites *)

\* the sites of the user; rows of equal content belong to each of them
ExportSites ==
    Sites \cup { [ id |-> 2, user_id |-> 1, site_name |-> << "T" >> ] }

ExportInit ==
    /\ builder = "content"
    /\ site \in ExportSites
    /\ \E p \in Persons :
          /\ p.user.email = << "e" >>
          /\ user = p.user
          /\ step1_data = p.step1
          /\ step2_data = p.step2
    /\ step3_data = NoRow
    /\ step4_data \in RouteStep4Rows
    /\ disk = FilesOf(step4_data)
    /\ pc = "idle"
    /\ idx = 1
    /\ post_id_counter = 0
    /\ gallery_post_ids = << >>
    /\ profile_picture_post_id = 0
    /\ xml_lines = << >>
    /\ channel = << >>
    /\ now = 0
    /\ session = NoSession
    /\ flashes = << >>
    /\ bibtex_content = BibtexOf(<< >>, FALSE)
    /\ parse_result = NotCalled
    /\ format_arg = NoPublication
    /\ format_result = None
    /\ delivered = NoFile
    /\ writes = 0

\* the next request names another site of the user
Visit ==
    /\ pc \in Responded
    /\ site' \in ExportSites \ { site }
    /\ UNCHANGED << builder, user, step1_data, step2_data, step3_data, step4_data, disk,
                    now, writes, pc, idx, post_id_counter, gallery_post_ids,
                    profile_picture_post_id, xml_lines, channel, route, parsing,
                    formatting, delivered >>

\* session.get('wxr_filename', 'wordpress_export.wxr')
download_name ==
    IF session.wxr_filename = None THEN << "wordpress_export.wxr" >>
    ELSE session.wxr_filename

\* a request of download: the site is the user's and the session holds a
\* document, which is sent under the filename the session holds
Download ==
    /\ pc \in Responded
    /\ site # NoRow
    /\ IF site.user_id # user.id
       THEN /\ PermissionDenied("You do not have permission to download this file.")
            /\ delivered' = NoFile
       ELSE IF ~ Truthy(session.wxr_data)
       THEN /\ pc' = "redirect_preview"
            /\ flashes' = << [ category |-> "error",
                               message |-> "WXR file not found. Please generate the file again." ] >>
            /\ delivered' = NoFile
       ELSE /\ pc' = "send_file"
            /\ flashes' = << >>
            /\ delivered' = [ wxr_data |-> session.wxr_data, download_name |-> download_name ]
    /\ UNCHANGED << inputs, session, parsing, formatting, idx, post_id_counter,
                    gallery_post_ids, profile_picture_post_id, xml_lines, channel >>

ExportNext ==
    \/ Generate
    \/ Start
    \/ GalleryImage
    \/ ProfilePicture
    \/ HomePage
    \/ PublicationsPage
    \/ GalleryPage
    \/ Close
    \/ BuildRaises
    \/ StoreInSession
    \/ RenderDownloadPage
    \/ Tick
    \/ Visit
    \/ Download

SpecExport == ExportInit /\ [][ExportNext]_vars

\* the file is a document of site s under a filename of site s
GeneratedFor(file, s) ==
    /\ SubSeq(file.download_name, 1, Len(Str(s.id)) + 2)
          = << "wordpress_export_" >> \o Str(s.id) \o << "_" >>
    /\ Between(file.wxr_data, "    <title>", "</title>") # << >>
    /\ Unescape(Between(file.wxr_data, "    <title>", "</title>")[1]) = s.site_name

\* C26: a download for a site sends a document, and a filename, that generate
\* made for that site
C26_DownloadDeliversOwnSite ==
    [][ pc' = "send_file" /\ site' = site => GeneratedFor(delivered', site') ]_vars

\* the latest answer is that of a generate that failed
GenerateFailed ==
    /\ pc = "redirect_preview"
    /\ flashes # << >>
    /\ flashes[Len(flashes)].message = "Error generating WXR file: "

\* C27: after a generate that failed, the next download sends no file
C27_NoFileAfterFailedGenerate ==
    [][ GenerateFailed => pc' # "send_file" ]_vars

-----------------------------------------------------------------------------
(* The items of a finished build, whichever builder made them *)

\* kind and title of the items the stored rows and the files on disk call
\* for, in order
ItemsCalledFor ==
    [ k \in DOMAIN ExpectedAttachments |->
        [ kind |-> "attachment", title |-> TitleOf(ExpectedAttachments[k]) ] ]
    \o << [ kind |-> "page", title |-> TitleOf(HomeTitle) ] >>
    \o (IF ParsedRecords # << >> \/ ManualRecords # << >>
        THEN << [ kind |-> "page", title |-> TitleOf(PublicationsTitle) ] >> ELSE << >>)
    \o (IF Existing(StoredGallery) # << >>
        THEN << [ kind |-> "page", title |-> TitleOf(GalleryTitle) ] >> ELSE << >>)

\* C28: both builders finish on every input and emit the same items: the
\* k-th item has the kind and the title the input calls for and post id k + 1
C28_BuildersEmitSameItems ==
    /\ pc # "raised"
    /\ Finished =>
         /\ Len(Items) = Len(ItemsCalledFor)
         /\ \A k \in DOMAIN Items :
               /\ Items[k].kind = ItemsCalledFor[k].kind
               /\ Items[k].title = ItemsCalledFor[k].title
               /\ Items[k].post_id = k + 1

-----------------------------------------------------------------------------
(* routes/wizard.py, routes/site.py, routes/export.py: the requests of one    *)
(* session on one site, which belongs to the user of the session or to        *)
(* another user                                                               *)

\* the rows of the site in the database
database == << site, step1_data, step2_data, step3_data, step4_data >>

\* the locals of a build
locals == << idx, post_id_counter, gallery_post_ids, profile_picture_post_id,
             xml_lines, channel >>

\* the user of the session
WizardUser == CHOOSE u \in Users : u.email = << "e" >>

\* the site of the requests: a site of the user, or a site of another user
WizardSites ==
    Sites \cup { [ id |-> 3, user_id |-> 2, site_name |-> << "O" >> ] }

\* what the forms of steps 1 and 2 write
Step1Posted == CHOOSE r \in Step1Rows : r.title_role # None

Step2Posted == CHOOSE r \in Step2Rows : r.biography # None

\* a BibTeX text of one titled entry, and one on which the parser raises
WizardBibtex ==
    { b \in BibtexContents :
        \/ b.raises
        \/ Len(b.entries) = 1 /\ "title" \in DOMAIN b.entries[1] }

\* Step3Publications(site_id=site.id), Step4Gallery(site_id=site.id)
NewStep3 ==
    [ is_none |-> FALSE,
      bibtex_content |-> CHOOSE b \in BibtexContents : b.empty,
      manual_publications |-> << >> ]

NewStep4 == [ is_none |-> FALSE, profile_picture |-> None, gallery_images |-> << >> ]

\* an export of another site of the user, stored in the session earlier
EarlierExport ==
    [ wxr_data |-> << "<?xml version=\"1.0\" encoding=\"UTF-8\"?>" >>,
      wxr_filename |-> << "wordpress_export_" >> \o Str(2) \o << "_" >>
                       \o << "%Y%m%d_%H%M%S" >> \o Str(0) \o << ".wxr" >> ]

WizardInit ==
    /\ builder = "content"
    /\ user = WizardUser
    /\ site \in WizardSites
    /\ IF site.user_id = user.id
       THEN /\ \/ step1_data = NoRow /\ step2_data = NoRow
               \/ step1_data = Step1Posted /\ step2_data = Step2Posted
            /\ step3_data = NoRow
            /\ step4_data = NoRow
            /\ disk = { }
            /\ session = NoSession
       ELSE /\ step1_data \in { NoRow, Step1Posted }
            /\ step2_data \in { NoRow, Step2Posted }
            /\ step3_data \in RouteStep3Rows
            /\ step4_data \in RouteStep4Rows
            /\ disk \in SUBSET FilesOf(step4_data)
            /\ session \in { NoSession, EarlierExport }
    /\ pc = "idle"
    /\ idx = 1
    /\ post_id_counter = 0
    /\ gallery_post_ids = << >>
    /\ profile_picture_post_id = 0
    /\ xml_lines = << >>
    /\ channel = << >>
    /\ now = 0
    /\ flashes = << >>
    /\ bibtex_content = BibtexOf(<< >>, FALSE)
    /\ parse_result = NotCalled
    /\ format_arg = NoPublication
    /\ format_result = None
    /\ delivered = NoFile
    /\ writes = 0

\* what a request leaves alone whoever sends it
Elsewhere == UNCHANGED << builder, user, now, parsing, formatting, locals >>

\* a message flashed by a request
Flash(category, message) == [ category |-> category, message |-> message ]

\* WordPressSite.query.get_or_404(site_id), the site being deleted
NotFound ==
    /\ pc \in Responded
    /\ site = NoRow
    /\ pc' = "not_found"
    /\ flashes' = << >>
    /\ Elsewhere
    /\ UNCHANGED << database, disk, session, delivered, writes >>
\* a submitted form: whether the request is a POST, whether the button Next
\* Step was used (Save Draft otherwise), and whether the fields validate
Forms ==
    { [ post |-> FALSE, submit |-> FALSE, valid |-> TRUE ] }
    \cup [ post : { TRUE }, submit : BOOLEAN, valid : BOOLEAN ]

\* form.validate_on_submit()
validate_on_submit(form) == form.post /\ form.valid

\* the answer of a wizard step that saved its form
Saved(draft_message, form) ==
    IF form.submit
    THEN /\ pc' = "redirect_wizard"
         /\ flashes' = << >>
    ELSE /\ pc' = "redirect_index"
         /\ flashes' = << Flash("success", draft_message) >>

\* render_template
Rendered ==
    /\ pc' = "page"
    /\ flashes' = << >>

_handle_step1 ==
    \E form \in Forms :
       /\ IF validate_on_submit(form)
          THEN /\ writes < MaxWrites
               /\ step1_data' = Step1Posted
               /\ writes' = writes + 1
               /\ Saved("Step 1 saved as draft", form)
          ELSE /\ Rendered
               /\ UNCHANGED << step1_data, writes >>
       /\ UNCHANGED << site, step2_data, step3_data, step4_data, disk >>

_handle_step2 ==
    \E form \in Forms :
       /\ IF validate_on_submit(form)
          THEN /\ writes < MaxWrites
               /\ step2_data' = Step2Posted
               /\ writes' = writes + 1
               /\ Saved("Step 2 saved as draft", form)
          ELSE /\ Rendered
               /\ UNCHANGED << step2_data, writes >>
       /\ UNCHANGED << site, step1_data, step3_data, step4_data, disk >>

\* site.step3_data, created when the site has none
Step3Row == IF IsRow(step3_data) THEN step3_data ELSE NewStep3

\* the requests of step 3: a GET, or a POST with a BibTeX file (which decodes
\* or not), with BibTeX text in the form, or with neither
Step3Requests ==
    [ kind : { "get" }, text : { None }, form : { f \in Forms : ~ f.post } ]
    \cup [ kind : { "file" }, text : WizardBibtex,
           form : { f \in Forms : f.post /\ f.valid /\ f.submit } ]
    \cup [ kind : { "undecodable" }, text : { None },
           form : { f \in Forms : f.post /\ f.valid /\ f.submit } ]
    \cup [ kind : { "content" }, text : WizardBibtex, form : { f \in Forms : f.post } ]
    \cup [ kind : { "nothing" }, text : { None }, form : { f \in Forms : f.post /\ f.valid } ]

\* the end of _handle_step3: the publications are parsed for the page, a
\* failure of the parser is flashed as a warning
RenderedStep3(row, before) ==
    /\ pc' = "page"
    /\ flashes' = before \o (IF ~ row.bibtex_content.empty /\ row.bibtex_content.raises
                             THEN << Flash("warning", "Warning: Could not parse BibTeX content: ") >>
                             ELSE << >>)

_handle_step3 ==
    \E req \in Step3Requests :
       /\ CASE req.kind = "file" ->
                 /\ writes < MaxWrites
                 /\ step3_data' = [ Step3Row EXCEPT !.bibtex_content = req.text ]
                 /\ writes' = writes + 1
                 /\ pc' = "redirect_wizard"
                 /\ flashes' = << Flash("success", "BibTeX file uploaded successfully!") >>
            [] req.kind = "undecodable" ->
                 /\ step3_data' = Step3Row
                 /\ RenderedStep3(Step3Row,
                                  << Flash("error", "Error uploading BibTeX file: ") >>)
                 /\ UNCHANGED writes
            [] req.kind = "content" /\ validate_on_submit(req.form) ->
                 /\ writes < MaxWrites
                 /\ step3_data' = [ Step3Row EXCEPT !.bibtex_content = req.text ]
                 /\ writes' = writes + 1
                 /\ Saved("Step 3 saved as draft", req.form)
            [] req.kind = "nothing" /\ req.form.submit ->
                 /\ step3_data' = Step3Row
                 /\ pc' = "redirect_wizard"
                 /\ flashes' = << >>
                 /\ UNCHANGED writes
            [] req.kind = "nothing" /\ ~ req.form.submit ->
                 /\ step3_data' = Step3Row
                 /\ pc' = "redirect_index"
                 /\ flashes' = << Flash("success", "Step 3 saved as draft") >>
                 /\ UNCHANGED writes
            [] OTHER ->
                 /\ step3_data' = Step3Row
                 /\ RenderedStep3(Step3Row, << >>)
                 /\ UNCHANGED writes
       /\ UNCHANGED << site, step1_data, step2_data, step4_data, disk >>
\* no file in a file field of a form
NoUpload == [ is_none |-> TRUE ]

\* an uploaded file: whether its extension is one of the allowed ones, and
\* whether storing it succeeds (secure_filename keeps a dot before the
\* extension, file.save writes the file)
Uploads == [ is_none : { FALSE }, allowed : BOOLEAN, saves : BOOLEAN ]

\* the names uuid4 gives to profile pictures
PictureNames == ProfileNames \cup { << "q" >> }

\* save_uploaded_file, with the name uuid4 makes: the filename, None, or an
\* exception
save_uploaded_file(file, unique_filename) ==
    IF file.is_none THEN [ raised |-> FALSE, value |-> None ]
    ELSE IF ~ file.allowed THEN [ raised |-> FALSE, value |-> None ]
    ELSE IF ~ file.saves THEN [ raised |-> TRUE, value |-> None ]
    ELSE [ raised |-> FALSE, value |-> unique_filename ]

\* delete_uploaded_file: the files left in the folder of the site
delete_uploaded_file(filename) == disk \ { filename }

\* site.step4_data, created when the site has none
Step4Row == IF IsRow(step4_data) THEN step4_data ELSE NewStep4

\* the forms of step 4: FileAllowed rejects a file that is not an image
Step4Forms ==
    { f \in [ post : BOOLEAN, submit : BOOLEAN, valid : BOOLEAN,
              profile_picture : { NoUpload } \cup Uploads,
              gallery_images : { << >> } \cup { << u >> : u \in { v \in Uploads : v.saves } } ] :
        /\ f.valid <=> /\ f.profile_picture.is_none \/ f.profile_picture.allowed
                       /\ \A i \in DOMAIN f.gallery_images : f.gallery_images[i].allowed
        /\ ~ f.post => ~ f.submit /\ f.profile_picture.is_none /\ f.gallery_images = << >> }

_handle_step4 ==
    \E form \in Step4Forms :
       LET current_profile == Step4Row.profile_picture
           \* the name uuid4 makes is not the name of another file
           unused == PictureNames \ (disk \cup { current_profile })
           picture_name == CHOOSE name \in unused : TRUE
           \* the folder after the old profile picture is deleted
           after_delete == IF ~ form.profile_picture.is_none /\ Truthy(current_profile)
                           THEN delete_uploaded_file(current_profile) ELSE disk
           saved == save_uploaded_file(form.profile_picture, picture_name)
           existing == get_gallery_images(Step4Row)
           new_gallery == [ i \in DOMAIN form.gallery_images |->
                              GalleryName(Len(existing) + i) ]
       IN
       /\ form.profile_picture.is_none \/ unused # { }
       /\ IF ~ validate_on_submit(form)
          THEN /\ step4_data' = Step4Row
               /\ Rendered
               /\ UNCHANGED << disk, writes >>
          ELSE IF saved.raised
          THEN /\ step4_data' = Step4Row
               /\ disk' = after_delete
               /\ pc' = "error_500"
               /\ flashes' = << >>
               /\ UNCHANGED writes
          ELSE /\ writes < MaxWrites
               /\ Len(existing) + Len(new_gallery) <= MaxGallery
               /\ step4_data' =
                     [ Step4Row EXCEPT
                         !.profile_picture = IF Truthy(saved.value) THEN saved.value ELSE @,
                         !.gallery_images = existing \o new_gallery ]
               /\ disk' = after_delete
                          \cup (IF Truthy(saved.value) THEN { saved.value } ELSE { })
                          \cup Range(new_gallery)
               /\ writes' = writes + 1
               /\ Saved("Step 4 saved as draft", form)
       /\ UNCHANGED << site, step1_data, step2_data, step3_data >>

\* _handle_preview
_handle_preview ==
    /\ pc' = "redirect_preview"
    /\ flashes' = << >>
    /\ UNCHANGED << database, disk, writes >>

\* a step number that is none of 1 to 5
InvalidStep ==
    /\ pc' = "redirect_index"
    /\ flashes' = << Flash("error", "Invalid step") >>
    /\ UNCHANGED << database, disk, writes >>

\* step, were the owner of the site not looked at
Step_Unchecked ==
    /\ pc \in Responded
    /\ site # NoRow
    /\ \/ _handle_step1
       \/ _handle_step2
       \/ _handle_step3
       \/ _handle_step4
       \/ _handle_preview
       \/ InvalidStep
    /\ Elsewhere
    /\ UNCHANGED << session, delivered >>

\* a request of a wizard step
Step ==
    /\ pc \in Responded
    /\ site # NoRow
    /\ IF site.user_id # user.id
       THEN /\ PermissionDenied("You do not have permission to access this site.")
            /\ UNCHANGED << database, disk, writes >>
       ELSE \/ _handle_step1
            \/ _handle_step2
            \/ _handle_step3
            \/ _handle_step4
            \/ _handle_preview
            \/ InvalidStep
    /\ Elsewhere
    /\ UNCHANGED << session, delivered >>
\* the id the database gives to the next ManualPublication row
NextPublicationId ==
    LET ids == { Step3Row.manual_publications[i].id : i \in DOMAIN Step3Row.manual_publications }
    IN  IF ids = { } THEN 1 ELSE 1 + CHOOSE m \in ids : \A n \in ids : n <= m

\* a request of add_publication
AddPublication ==
    /\ pc \in Responded
    /\ site # NoRow
    /\ IF site.user_id # user.id
       THEN /\ PermissionDenied("You do not have permission to access this site.")
            /\ UNCHANGED << step3_data, writes >>
       ELSE \E form \in { f \in Forms : f.post } :
               /\ IF validate_on_submit(form)
                  THEN /\ writes < MaxWrites
                       /\ Len(Step3Row.manual_publications) < MaxManual
                       /\ step3_data' =
                             [ Step3Row EXCEPT
                                 !.manual_publications = Append(@, ManualRow(NextPublicationId)) ]
                       /\ writes' = writes + 1
                       /\ flashes' = << Flash("success", "Publication added successfully!") >>
                  ELSE /\ flashes' = << Flash("error", "author: Author is required") >>
                       /\ UNCHANGED << step3_data, writes >>
               /\ pc' = "redirect_wizard"
    /\ Elsewhere
    /\ UNCHANGED << site, step1_data, step2_data, step4_data, disk, session, delivered >>

\* the id of a ManualPublication row of another site
OtherPublicationId == 0

\* the ids of the ManualPublication rows of the site
PublicationIds ==
    IF IsRow(step3_data)
    THEN { step3_data.manual_publications[i].id : i \in DOMAIN step3_data.manual_publications }
    ELSE { }

\* a request of delete_publication
DeletePublication ==
    /\ pc \in Responded
    /\ site # NoRow
    /\ IF site.user_id # user.id
       THEN /\ PermissionDenied("You do not have permission to access this site.")
            /\ UNCHANGED << step3_data, writes >>
       ELSE \E pub_id \in PublicationIds \cup { OtherPublicationId } :
               IF pub_id \notin PublicationIds
               THEN /\ PermissionDenied("You do not have permission to delete this publication.")
                    /\ UNCHANGED << step3_data, writes >>
               ELSE /\ writes < MaxWrites
                    /\ step3_data' =
                          [ step3_data EXCEPT
                              !.manual_publications =
                                 LET keep(row) == row.id # pub_id IN SelectSeq(@, keep) ]
                    /\ writes' = writes + 1
                    /\ pc' = "redirect_wizard"
                    /\ flashes' = << Flash("success", "Publication deleted successfully!") >>
    /\ Elsewhere
    /\ UNCHANGED << site, step1_data, step2_data, step4_data, disk, session, delivered >>

\* a request of delete of routes/site.py: the rows of the site go with it
DeleteSite ==
    /\ pc \in Responded
    /\ site # NoRow
    /\ IF site.user_id # user.id
       THEN /\ PermissionDenied("You do not have permission to delete this site.")
            /\ UNCHANGED << database, writes >>
       ELSE /\ writes < MaxWrites
            /\ site' = NoRow
            /\ step1_data' = NoRow
            /\ step2_data' = NoRow
            /\ step3_data' = NoRow
            /\ step4_data' = NoRow
            /\ writes' = writes + 1
            /\ pc' = "redirect_index"
            /\ flashes' = << Flash("success", "Site deleted successfully.") >>
    /\ Elsewhere
    /\ UNCHANGED << disk, session, delivered >>

\* a request of preview
Preview ==
    /\ pc \in Responded
    /\ site # NoRow
    /\ IF site.user_id # user.id
       THEN PermissionDenied("You do not have permission to access this site.")
       ELSE IF ~ (IsRow(step1_data) /\ IsRow(step2_data))
       THEN /\ pc' = "redirect_wizard"
            /\ flashes' = << Flash("warning",
                                   "Please complete at least Steps 1 and 2 before previewing.") >>
       ELSE Rendered
    /\ Elsewhere
    /\ UNCHANGED << database, disk, session, delivered, writes >>

WizardNext ==
    \/ Preview
    \/ Generate
    \/ Start
    \/ GalleryImage
    \/ ProfilePicture
    \/ HomePage
    \/ PublicationsPage
    \/ GalleryPage
    \/ Close
    \/ BuildRaises
    \/ StoreInSession
    \/ RenderDownloadPage
    \/ Download
    \/ Step
    \/ AddPublication
    \/ DeletePublication
    \/ DeleteSite
    \/ NotFound

SpecWizard == WizardInit /\ [][WizardNext]_vars

-----------------------------------------------------------------------------
(* Requests on a site of another user; the stored profile picture *)

\* the site of the requests is not a site of the user of the session
ForeignSite == site # NoRow /\ site.user_id # user.id

\* the request was refused: one error is flashed with the redirect to the index
Refused ==
    /\ pc = "redirect_index"
    /\ Len(flashes) = 1
    /\ flashes[1].category = "error"

\* C29: on a site of another user every request (preview, generate, download,
\* a wizard step, add_publication, delete_publication, delete of the site) is
\* answered with an error and a redirect, and leaves the rows of the site, the
\* uploaded files and the export held by the session as they were
C29_ForeignSiteUntouched ==
    [][ ForeignSite => /\ Refused'
                       /\ UNCHANGED << database, disk, session >> ]_vars

\* a refused delete of a site that has rows, files and, in the session, an export
C29_Witness ==
    /\ ForeignSite
    /\ Refused
    /\ flashes[1].message = "You do not have permission to delete this site."
    /\ IsRow(step1_data) /\ IsRow(step3_data) /\ IsRow(step4_data)
    /\ disk # { }
    /\ session = EarlierExport

\* the profile picture a site names, if any, is a file of its upload folder
ProfilePictureOnDisk ==
    IsRow(step4_data) /\ Truthy(step4_data.profile_picture)
       => step4_data.profile_picture \in disk

\* C30: no request makes the stored profile picture name a file that is not
\* in the upload folder of the site
C30_StoredPictureExists ==
    [][ ProfilePictureOnDisk => ProfilePictureOnDisk' ]_vars

====
